---- MODULE Spec2Model ----
(***************************************************************************)
(* The lock-free single-producer / single-consumer message queue of        *)
(* src/src/queue.rs, at the granularity of its sequentially consistent     *)
(* atomic accesses.  One action is one access to a shared cell (tail,      *)
(* head, chain[i]) together with the thread-local code that follows it up  *)
(* to the next access.                                                     *)
(***************************************************************************)
EXTENDS Integers, Sequences, FiniteSets, TLC

(* ------------------------------ bounds -------------------------------- *)

\* Width of Index in bits.  The source uses u32; the width is scaled down
\* because the model checker's integers are 32-bit signed.  Only the bit layout
\* (all ones = sentinel, top bit = consumed flag) is used by the code.
IndexBits == 8

\* additional_messages ranges over 0..MaxAdditional
MaxAdditional == 1

\* number of push calls in one behaviour
MaxPush == 4

\* number of pop / flush calls in one behaviour
MaxConsume == 4

(* ------------------------ constants of the code ----------------------- *)

MIN_MSGS == 3

INVALID_INDEX == 2^IndexBits - 1

CONSUMED_FLAG == INVALID_INDEX - (INVALID_INDEX \div 2)

ORIGIN_MASK == CONSUMED_FLAG

\* !ORIGIN_MASK within the width of Index
INDEX_MASK == INVALID_INDEX - ORIGIN_MASK

\* idx & INDEX_MASK
MaskIndex(idx) == idx % (INDEX_MASK + 1)

\* (idx & CONSUMED_FLAG) != 0
Consumed(idx) == (idx \div CONSUMED_FLAG) % 2 = 1

\* mutant: the flag is masked out of the cell instead of or-ed into it
OrConsumedClears(idx) == idx % CONSUMED_FLAG

\* mutant: the flag is added to the cell (fetch_add) instead of or-ed into it
OrConsumedAdds(idx) == (idx + CONSUMED_FLAG) % (INVALID_INDEX + 1)

\* idx | CONSUMED_FLAG
OrConsumed(idx) == IF Consumed(idx) THEN idx ELSE idx + CONSUMED_FLAG

\* Option<T>: None, or Some(x)
None == <<>>
Some(x) == <<x>>
Unwrap(o) == o[1]

(* ------------------------------- state -------------------------------- *)

VARIABLES
    queue_len,   \* Queue::len(): MIN_MSGS + additional_messages
    tail,        \* shared cell 0
    head,        \* shared cell 1
    chain,       \* shared cells 2..N+1
    messages,    \* the data region: the value stored in every slot
    p_chain,     \* ProducerQueue.chain (local mirror)
    p_head,      \* ProducerQueue.head
    p_current,   \* ProducerQueue.current
    p_overrun,   \* ProducerQueue.overrun
    p_pc,        \* position of the producer inside force_push / try_push
    p_op,        \* the push operation in progress
    p_next,      \* local `next` of the push in progress
    p_tail,      \* local `tail` of the push in progress
    p_log,       \* history: the completed pushes, with their results
    c_current,   \* ConsumerQueue.current
    c_pc,        \* position of the consumer inside pop / flush
    c_tail,      \* local `tail` of the pop / flush in progress
    c_next,      \* local `next` of pop, local `head` of flush
    c_log,       \* history: the completed pops and flushes, with their results
    published,   \* history: values in the order they became visible
    discarded,   \* history: values the producer removed unread
    logging,     \* TRUE when the histories are recorded and the calls counted
    eventfd,     \* Producer.eventfd / Consumer.eventfd: None or Some(counter)
    cache,       \* Producer.cache: None or Some(message)
    initiator,   \* the process in client_connect: its position and locals
    acceptor,    \* the process in Server::conditional_accept
    socket,      \* the datagrams in flight between the two
    takes,       \* history: the take_producer / take_consumer calls
    resource,    \* the VectorResource of VectorResource::allocate
    shm_regions, \* the index regions of the queues in the arena
    answer       \* history: the last info accessor call and what it returned

shared == <<tail, head, chain>>
producer == <<p_chain, p_head, p_current, p_overrun>>
plocal == <<p_pc, p_op, p_next, p_tail, p_log>>
clocal == <<c_pc, c_tail, c_next>>
consumer == <<c_current, c_log>>
vars == <<queue_len, tail, head, chain, messages, p_chain, p_head, p_current,
          p_overrun, p_pc, p_op, p_next, p_tail, p_log, c_current, c_pc,
          c_tail, c_next, c_log, published, discarded, logging, eventfd,
          cache, initiator, acceptor, socket, takes, resource, answer,
          shm_regions>>

\* the handshake that sets a channel vector up
handshake ==
    <<initiator, acceptor, socket, takes, resource, answer, shm_regions>>

\* a queue in use: the handshake is over and its processes are not modelled
NoHandshake ==
    /\ initiator = None
    /\ acceptor = None
    /\ socket = None
    /\ takes = <<>>
    /\ resource = None
    /\ answer = None
    /\ shm_regions = <<>>

Slots == 0 .. (queue_len - 1)

is_valid_index(idx) == idx < queue_len

(* ------------------- the queue as the consumer sees it ---------------- *)

RECURSIVE Walk(_, _)
\* the slots reachable from slot idx along the shared chain
Walk(idx, fuel) ==
    IF fuel = 0 \/ ~is_valid_index(idx) THEN <<>>
    ELSE <<idx>> \o Walk(chain[idx], fuel - 1)

\* the slots that hold published messages the consumer has not been given
UnreadSlots ==
    IF ~is_valid_index(MaskIndex(tail)) THEN <<>>
    ELSE IF Consumed(tail) THEN Walk(chain[MaskIndex(tail)], queue_len)
    ELSE Walk(tail, queue_len)

UnreadValues == { messages[UnreadSlots[i]] : i \in 1 .. Len(UnreadSlots) }

(* ------------------------------- Init --------------------------------- *)

\* ProducerQueue::new followed by Queue::init, and ConsumerQueue::new
QueueInit ==
    /\ queue_len \in MIN_MSGS .. (MIN_MSGS + MaxAdditional)
    /\ tail = INVALID_INDEX
    /\ head = INVALID_INDEX
    /\ chain = [i \in 0 .. (queue_len - 1) |-> (i + 1) % queue_len]
    /\ messages = [i \in 0 .. (queue_len - 1) |-> 0]
    /\ p_chain = [i \in 0 .. (queue_len - 1) |-> (i + 1) % queue_len]
    /\ p_head = INVALID_INDEX
    /\ p_current = 0
    /\ p_overrun = INVALID_INDEX
    /\ p_pc = "idle"
    /\ p_op = "none"
    /\ p_next = INVALID_INDEX
    /\ p_tail = INVALID_INDEX
    /\ p_log = <<>>
    /\ c_current = 0
    /\ c_pc = "idle"
    /\ c_tail = INVALID_INDEX
    /\ c_next = INVALID_INDEX
    /\ c_log = <<>>
    /\ published = <<>>
    /\ discarded = {}

\* the queue after construction, its calls counted and recorded
Init ==
    QueueInit /\ NoHandshake /\ logging = TRUE /\ eventfd = None /\ cache = None

(* ------------------------------ producer ------------------------------ *)

\* mutant: the descriptor is written after every push that published
NotifiesPublished(op, r) == r \in {"Success", "SuccessMessageDiscarded"}

\* Producer::force_push / Producer::try_push: the result of the queue's push
\* after which the wake-up descriptor is written
Notifies(op, r) == r = "Success"

\* the push `op` returns result r and leaves the producer with current slot
\* cur; the callers of the queue panic on QueueError (examples/client.rs)
PReturn(op, r, cur) ==
    /\ p_pc' = IF r = "QueueError" THEN "panic"
               ELSE IF eventfd # None /\ Notifies(op, r) THEN "notify"
               ELSE "idle"
    /\ p_op' = "none"
    /\ p_next' = INVALID_INDEX
    /\ p_tail' = INVALID_INDEX
    /\ p_log' = IF logging
                THEN Append(p_log, [op |-> op, result |-> r,
                                    value |-> messages'[p_current]])
                ELSE p_log
    /\ p_current' = cur

\* the producer goes on to the step `pc` of the push in progress
PGoto(pc, t) ==
    /\ p_pc' = pc
    /\ p_tail' = t
    /\ UNCHANGED <<p_op, p_next, p_log, p_current>>

\* the first step of the push `op` leads to the step `pc`
PBegin(op, pc) ==
    /\ p_pc' = pc
    /\ p_op' = op
    /\ p_next' = p_chain[p_current]
    /\ UNCHANGED <<p_tail, p_log, p_current>>

\* mutant: queue_store writes the mirror and leaves the shared cell
ProducerQueueStoreLocal(idx, val) ==
    /\ p_chain' = [p_chain EXCEPT ![idx] = val]
    /\ chain' = chain

\* mutant: queue_store writes the shared cell and forgets the mirror
ProducerQueueStoreShared(idx, val) ==
    /\ p_chain' = p_chain
    /\ chain' = [chain EXCEPT ![idx] = val]

\* ProducerQueue::queue_store
ProducerQueueStore(idx, val) ==
    /\ p_chain' = [p_chain EXCEPT ![idx] = val]
    /\ chain' = [chain EXCEPT ![idx] = val]

\* what a producer step removes from the unread messages
NoteDiscards ==
    discarded' = IF logging
                 THEN discarded \cup (UnreadValues \ UnreadValues')
                 ELSE discarded

CanPush == p_pc = "idle" /\ (logging => Len(p_log) < MaxPush)

\* mutant: current_message() hands out the slot although the cache is enabled
CurrentIsSlot == FALSE

\* Producer::current_message: if let Some(ref mut cache) = self.cache
CurrentIsCache == cache # None

\* without the cache the caller fills the current slot through
\* current_message() before it calls the push; the value is the ordinal of the
\* message.  With the cache, Producer::force_push / try_push copy the cache
\* to *self.current_message(), which is the cache itself
FillMessage ==
    messages' = IF ~logging THEN messages
                ELSE IF cache = None
                THEN [messages EXCEPT ![p_current] = Len(published) + 1]
                ELSE IF CurrentIsCache THEN messages
                ELSE [messages EXCEPT ![p_current] = Unwrap(cache)]

\* with the cache enabled the caller has written the message it is about to
\* push through current_message() (write_message)
MessageWritten == cache = None \/ cache = Some(Len(published) + 1)

\* the message in the current slot becomes visible to the consumer
Publish ==
    published' = IF logging THEN Append(published, messages[p_current])
                 ELSE published

\* mutant: the new head is kept in the producer and not stored
HeadStoreLocal(idx) ==
    /\ p_head' = idx
    /\ head' = head

\* self.head = self.current; self.queue.head_store(self.head)
HeadStore(idx) ==
    /\ p_head' = idx
    /\ head' = idx

\* force_push: `next`, the head test and the first store of
\* enqueue_first_message / enqueue_message
force_push ==
    /\ CanPush
    /\ MessageWritten
    /\ FillMessage
    /\ ProducerQueueStore(p_current, INVALID_INDEX)
    /\ PBegin("force_push",
              IF p_head = INVALID_INDEX THEN "first_tail" ELSE "enq_link")
    /\ UNCHANGED <<handshake, logging, eventfd, cache, queue_len, tail, head, p_head, p_overrun, clocal, consumer,
                   published>>
    /\ NoteDiscards

\* enqueue_first_message: self.queue.tail_store(self.current)
enqueue_first_tail ==
    /\ p_pc = "first_tail"
    /\ tail' = p_current
    /\ Publish
    /\ PGoto("first_head", p_tail)
    /\ UNCHANGED <<handshake, logging, eventfd, cache, queue_len, head, chain, messages, p_chain, p_head, p_overrun,
                   clocal, consumer>>
    /\ NoteDiscards

\* enqueue_first_message: head and head_store; then current = next; Success
enqueue_first_head ==
    /\ p_pc = "first_head"
    /\ messages' = messages
    /\ HeadStore(p_current)
    /\ PReturn(p_op, "Success", p_next)
    /\ UNCHANGED <<handshake, logging, eventfd, cache, queue_len, tail, chain, p_chain, p_overrun, clocal,
                   consumer, published>>
    /\ NoteDiscards

\* mutant: the full test compares next with the tail without masking the flag
TryPublishesUnmasked(t) ==
    IF p_overrun # INVALID_INDEX THEN Consumed(t)
    ELSE p_chain[p_current] # t

\* mutant: the full test lets the producer use the last free slot as well
TryPublishesAlways(t) == TRUE

\* the full test of try_push once the tail is loaded: TRUE when it publishes
TryPublishes(t) ==
    IF p_overrun # INVALID_INDEX THEN Consumed(t)
    ELSE p_chain[p_current] # MaskIndex(t)

\* the queue's try_push, called now, would return QueueFull
WouldReturnQueueFull ==
    /\ p_head # INVALID_INDEX
    /\ is_valid_index(MaskIndex(tail))
    /\ ~TryPublishes(tail)

\* mutant: try_push moves current to next before it finds the queue full
TryPushFullAdvances == PReturn("try_push", "QueueFull", p_chain[p_current])

\* try_push: the queue is full, return QueueFull
TryPushFull == PReturn("try_push", "QueueFull", p_current)

\* try_push: `next`, the head test, then either the first store of
\* enqueue_first_message or the tail load and the full test
try_push ==
    /\ (CanPush /\ cache = None) \/ p_pc = "try_queue"
    /\ FillMessage
    /\ IF p_head = INVALID_INDEX
       THEN /\ ProducerQueueStore(p_current, INVALID_INDEX)
            /\ PBegin("try_push", "first_tail")
       ELSE /\ UNCHANGED <<chain, p_chain>>
            /\ IF ~is_valid_index(MaskIndex(tail))
               THEN PReturn("try_push", "QueueError", p_current)
               ELSE IF TryPublishes(tail)
               THEN PBegin("try_push", "enq_chain")
               ELSE TryPushFull
    /\ UNCHANGED <<handshake, logging, eventfd, cache, queue_len, tail, head, p_head, p_overrun, clocal, consumer,
                   published>>
    /\ NoteDiscards

\* enqueue_message: self.queue_store(self.current, INVALID_INDEX)
enqueue_chain ==
    /\ p_pc = "enq_chain"
    /\ ProducerQueueStore(p_current, INVALID_INDEX)
    /\ PGoto("enq_link", p_tail)
    /\ UNCHANGED <<handshake, logging, eventfd, cache, queue_len, tail, head, messages, p_head, p_overrun, clocal,
                   consumer, published>>
    /\ NoteDiscards

\* enqueue_message: self.queue_store(self.head, self.current)
enqueue_link ==
    /\ p_pc = "enq_link"
    /\ ProducerQueueStore(p_head, p_current)
    /\ Publish
    /\ PGoto("enq_head", p_tail)
    /\ UNCHANGED <<handshake, logging, eventfd, cache, queue_len, tail, head, messages, p_head, p_overrun, clocal,
                   consumer>>
    /\ NoteDiscards

\* enqueue_message: head and head_store; try_push then re-queues the overrun
\* slot or returns, force_push goes on to load the tail
enqueue_head ==
    /\ p_pc = "enq_head"
    /\ messages' = messages
    /\ HeadStore(p_current)
    /\ IF p_op = "force_push" THEN PGoto("load_tail", p_tail)
       ELSE IF p_overrun # INVALID_INDEX THEN PGoto("requeue", p_tail)
       ELSE PReturn(p_op, "Success", p_next)
    /\ UNCHANGED <<handshake, logging, eventfd, cache, queue_len, tail, chain, p_chain, p_overrun, clocal,
                   consumer, published>>
    /\ NoteDiscards

\* mutant: force_push never finds the queue full
ForceFullNever(t) == FALSE

\* force_push without a previous overrun: let full = next == (tail & INDEX_MASK)
ForceFull(t) == p_next = MaskIndex(t)

\* force_push: tail_load and the branches up to the next shared access
force_load_tail ==
    /\ p_pc = "load_tail"
    /\ messages' = messages
    /\ IF ~is_valid_index(MaskIndex(tail))
       THEN PReturn(p_op, "QueueError", p_current)
       ELSE IF p_overrun # INVALID_INDEX
       THEN IF Consumed(tail) THEN PGoto("requeue", tail)
            ELSE PGoto("move_tail", tail)
       ELSE IF ~ForceFull(tail) THEN PReturn(p_op, "Success", p_next)
       ELSE IF ~Consumed(tail) THEN PGoto("move_tail", tail)
       ELSE PGoto("overrun", tail)
    /\ UNCHANGED <<handshake, logging, eventfd, cache, queue_len, shared, p_chain, p_head, p_overrun,
                   clocal, consumer, published>>
    /\ NoteDiscards

\* mutant: move_tail advances the tail by one instead of along the chain
MoveTailNextSlot(t) == MaskIndex(t) + 1

\* the value move_tail writes when its compare-exchange succeeds
MoveTailNext(t) == p_chain[MaskIndex(t)]

\* force_push: move_tail(tail) and the code after it
force_move_tail ==
    /\ p_pc = "move_tail"
    /\ messages' = messages
    /\ IF tail = p_tail
       THEN /\ tail' = MoveTailNext(p_tail)
            /\ PReturn(p_op, "SuccessMessageDiscarded",
                       IF p_overrun # INVALID_INDEX THEN MaskIndex(p_tail)
                       ELSE p_next)
       ELSE /\ tail' = tail
            /\ IF p_overrun # INVALID_INDEX THEN PGoto("requeue", p_tail)
               ELSE PGoto("overrun", OrConsumed(p_tail))
    /\ UNCHANGED <<handshake, logging, eventfd, cache, queue_len, head, chain, p_chain, p_head, p_overrun,
                   clocal, consumer, published>>
    /\ NoteDiscards

\* mutant: overrun moves the tail one slot only, onto the producer's new slot
OverrunNewTailShort(t) == p_chain[MaskIndex(t)]

\* the value overrun writes to tail when its compare-exchange succeeds
OverrunNewTail(t) == p_chain[p_chain[MaskIndex(t)]]

\* ProducerQueue::overrun(tail) and the return of force_push
force_overrun ==
    /\ p_pc = "overrun"
    /\ messages' = messages
    /\ IF tail = p_tail
       THEN /\ tail' = OverrunNewTail(p_tail)
            /\ p_overrun' = MaskIndex(p_tail)
            /\ PReturn(p_op, "SuccessMessageDiscarded",
                       p_chain[MaskIndex(p_tail)])
       ELSE /\ tail' = tail
            /\ p_overrun' = p_overrun
            /\ PReturn(p_op, "Success", MaskIndex(p_tail))
    /\ UNCHANGED <<handshake, logging, eventfd, cache, queue_len, head, chain, p_chain, p_head, clocal,
                   consumer, published>>
    /\ NoteDiscards

\* re-queue of the overrun slot: queue_store(overrun, next); current = overrun
requeue_overrun ==
    /\ p_pc = "requeue"
    /\ messages' = messages
    /\ ProducerQueueStore(p_overrun, p_next)
    /\ p_overrun' = INVALID_INDEX
    /\ PReturn(p_op, "Success", p_overrun)
    /\ UNCHANGED <<handshake, logging, eventfd, cache, queue_len, tail, head, p_head, clocal, consumer,
                   published>>
    /\ NoteDiscards

(* --------------------------- typed producer --------------------------- *)

\* ProducerQueue::full
full ==
    IF p_head = INVALID_INDEX THEN FALSE
    ELSE IF ~is_valid_index(MaskIndex(tail)) THEN FALSE
    ELSE IF p_overrun # INVALID_INDEX THEN ~Consumed(tail)
    ELSE ~(p_chain[p_current] = MaskIndex(tail))

\* Producer::try_push with the cache enabled: the test of queue.full(); the
\* copy of the cache and the queue's try_push follow when it is false
try_push_cached ==
    /\ CanPush
    /\ cache # None
    /\ MessageWritten
    /\ messages' = messages
    /\ IF full THEN PReturn("try_push", "QueueFull", p_current)
       ELSE /\ p_pc' = "try_queue"
            /\ p_op' = "try_push"
            /\ UNCHANGED <<p_next, p_tail, p_log, p_current>>
    /\ UNCHANGED <<handshake, logging, eventfd, cache, queue_len, shared, p_chain, p_head,
                   p_overrun, clocal, consumer, published, discarded>>

\* Producer::force_push / try_push: self.eventfd.as_ref().map(|fd| fd.write(1))
eventfd_write ==
    /\ p_pc = "notify"
    /\ eventfd' = Some(Unwrap(eventfd) + 1)
    /\ p_pc' = "idle"
    /\ UNCHANGED <<handshake, logging, cache, queue_len, shared, messages, producer, p_op,
                   p_next, p_tail, p_log, clocal, consumer, published,
                   discarded>>

\* Producer::current_message: the cache when it is enabled, else the slot
current_message ==
    IF CurrentIsCache THEN Unwrap(cache) ELSE messages[p_current]

\* the caller writes the next message through current_message() while the
\* cache is enabled
write_message ==
    /\ CanPush
    /\ cache # None
    /\ cache # Some(Len(published) + 1)
    /\ IF CurrentIsCache
       THEN /\ cache' = Some(Len(published) + 1)
            /\ messages' = messages
       ELSE /\ cache' = cache
            /\ messages' = [messages EXCEPT ![p_current] = Len(published) + 1]
    /\ UNCHANGED <<handshake, logging, eventfd, queue_len, shared, producer, plocal,
                   clocal, consumer, published, discarded>>

\* Producer::enable_cache
enable_cache ==
    /\ CanPush
    /\ cache = None
    /\ cache' = Some(current_message)
    /\ UNCHANGED <<handshake, logging, eventfd, queue_len, shared, messages, producer,
                   plocal, clocal, consumer, published, discarded>>

\* Producer::disable_cache
disable_cache ==
    /\ CanPush
    /\ cache # None
    /\ cache' = None
    /\ messages' = [messages EXCEPT ![p_current] = Unwrap(cache)]
    /\ UNCHANGED <<handshake, logging, eventfd, queue_len, shared, producer, plocal,
                   clocal, consumer, published, discarded>>

(* ------------------------------ consumer ------------------------------ *)

\* `op` returns result r and leaves the consumer with current slot cur;
\* the callers of the queue panic on QueueError (examples/client.rs)
CReturn(op, r, cur) ==
    /\ c_pc' = IF r = "QueueError" THEN "panic" ELSE "idle"
    /\ c_tail' = INVALID_INDEX
    /\ c_next' = INVALID_INDEX
    /\ c_current' = cur
    /\ c_log' = IF logging
                THEN Append(c_log, [op |-> op, result |-> r,
                                    value |-> messages[cur]])
                ELSE c_log

\* the consumer goes on to the step `pc` of the pop / flush in progress
CGoto(pc, t, n) ==
    /\ c_pc' = pc
    /\ c_tail' = t
    /\ c_next' = n
    /\ UNCHANGED <<c_current, c_log>>

CanConsume == c_pc = "idle" /\ (logging => Len(c_log) < MaxConsume)

\* ConsumerQueue::current_message
c_current_message ==
    IF c_current < queue_len THEN Some(messages[c_current]) ELSE None

\* Consumer::pop on a channel with a wake-up descriptor: eventfd.read();
\* the queue's pop follows when the descriptor had a unit
pop_eventfd_read ==
    /\ CanConsume
    /\ eventfd # None
    /\ IF Unwrap(eventfd) = 0
       THEN /\ eventfd' = eventfd
            /\ CReturn("pop", IF c_current_message # None THEN "NoNewMessage"
                              ELSE "NoMessage", c_current)
       ELSE /\ eventfd' = Some(Unwrap(eventfd) - 1)
            /\ CGoto("pop_queue", c_tail, c_next)
    /\ UNCHANGED <<handshake, logging, cache, queue_len, shared, messages, producer,
                   plocal, published, discarded>>

\* pop: tail_fetch_or(CONSUMED_FLAG) and the code up to chain_load
pop ==
    /\ (CanConsume /\ eventfd = None) \/ c_pc = "pop_queue"
    /\ tail' = OrConsumed(tail)
    /\ IF tail = INVALID_INDEX THEN CReturn("pop", "NoMessage", c_current)
       ELSE IF ~is_valid_index(MaskIndex(tail))
       THEN CReturn("pop", "QueueError", c_current)
       ELSE IF ~Consumed(tail)
       THEN CReturn("pop", "SuccessMessagesDiscarded", tail)
       ELSE CGoto("pop_chain", tail, c_next)
    /\ UNCHANGED <<handshake, logging, eventfd, cache, queue_len, head, chain, messages, producer, plocal, published,
                   discarded>>

\* pop: chain_load(self.current)
pop_chain_load ==
    /\ c_pc = "pop_chain"
    /\ IF chain[c_current] = INVALID_INDEX
       THEN CReturn("pop", "NoNewMessage", c_current)
       ELSE IF ~is_valid_index(chain[c_current])
       THEN CReturn("pop", "QueueError", c_current)
       ELSE CGoto("pop_cas", c_tail, chain[c_current])
    /\ UNCHANGED <<handshake, logging, eventfd, cache, queue_len, shared, messages, producer, plocal, published,
                   discarded>>

\* pop: tail_compare_exchange(tail, next | CONSUMED_FLAG)
pop_compare_exchange ==
    /\ c_pc = "pop_cas"
    /\ IF tail = c_tail
       THEN /\ tail' = OrConsumed(c_next)
            /\ CReturn("pop", "Success", c_next)
       ELSE /\ tail' = tail
            /\ CGoto("pop_refetch", c_tail, c_next)
    /\ UNCHANGED <<handshake, logging, eventfd, cache, queue_len, head, chain, messages, producer, plocal, published,
                   discarded>>

\* pop: the second tail_fetch_or after a failed compare-exchange
pop_refetch ==
    /\ c_pc = "pop_refetch"
    /\ tail' = OrConsumed(tail)
    /\ IF ~is_valid_index(tail) THEN CReturn("pop", "QueueError", c_current)
       ELSE CReturn("pop", "SuccessMessagesDiscarded", tail)
    /\ UNCHANGED <<handshake, logging, eventfd, cache, queue_len, head, chain, messages, producer, plocal, published,
                   discarded>>

\* flush: tail_fetch_or(CONSUMED_FLAG) at the top of the loop
flush ==
    /\ (CanConsume /\ eventfd = None) \/ c_pc = "flush_retry"
    /\ tail' = OrConsumed(tail)
    /\ IF tail = INVALID_INDEX THEN CReturn("flush", "NoMessage", c_current)
       ELSE IF ~is_valid_index(MaskIndex(tail))
       THEN CReturn("flush", "QueueError", c_current)
       ELSE CGoto("flush_head", tail, c_next)
    /\ UNCHANGED <<handshake, logging, eventfd, cache, queue_len, head, chain, messages, producer, plocal, published,
                   discarded>>

\* flush: head_load
flush_head_load ==
    /\ c_pc = "flush_head"
    /\ IF ~is_valid_index(head) THEN CReturn("flush", "QueueError", c_current)
       ELSE CGoto("flush_cas", c_tail, head)
    /\ UNCHANGED <<handshake, logging, eventfd, cache, queue_len, shared, messages, producer, plocal, published,
                   discarded>>

\* flush: tail_compare_exchange(tail | CONSUMED_FLAG, head | CONSUMED_FLAG);
\* on success self.current = head and Success, else once more round the loop
flush_compare_exchange ==
    /\ c_pc = "flush_cas"
    /\ IF tail = OrConsumed(c_tail)
       THEN /\ tail' = OrConsumed(c_next)
            /\ CReturn("flush", "Success", c_next)
       ELSE /\ tail' = tail
            /\ CGoto("flush_retry", INVALID_INDEX, INVALID_INDEX)
    /\ UNCHANGED <<handshake, logging, eventfd, cache, queue_len, head, chain, messages, producer, plocal, published,
                   discarded>>

(* ------------- Consumer::flush with a wake-up descriptor -------------- *)

\* Consumer::flush: `result` of the loop at the step c_pc; it is Success
\* once a pop of the loop returned Success
FlushResult ==
    IF c_pc \in {"flushed_read", "flushed_pop", "flushed_chain",
                 "flushed_cas", "flushed_refetch"}
    THEN "Success" ELSE "NoMessage"

\* the step `step` of the pop inside the loop with the result `result`
FlushPc(result, step) ==
    IF result = "Success"
    THEN CASE step = "read" -> "flushed_read"
           [] step = "pop" -> "flushed_pop"
           [] step = "chain" -> "flushed_chain"
           [] step = "cas" -> "flushed_cas"
           [] step = "refetch" -> "flushed_refetch"
    ELSE CASE step = "read" -> "flushing_read"
           [] step = "pop" -> "flushing_pop"
           [] step = "chain" -> "flushing_chain"
           [] step = "cas" -> "flushing_cas"
           [] step = "refetch" -> "flushing_refetch"

\* while self.pop() == Success: the pop returned r with current slot cur;
\* Success goes round the loop, every other result ends the flush with
\* `result`
FlushLoop(r, cur) ==
    IF r = "Success"
    THEN /\ c_pc' = FlushPc("Success", "read")
         /\ c_tail' = INVALID_INDEX
         /\ c_next' = INVALID_INDEX
         /\ c_current' = cur
         /\ c_log' = c_log
    ELSE CReturn("flush", FlushResult, cur)

\* Consumer::flush, eventfd.is_some(): the eventfd.read() of self.pop()
typed_flush_eventfd_read ==
    /\ eventfd # None
    /\ CanConsume \/ c_pc \in {"flushing_read", "flushed_read"}
    /\ IF Unwrap(eventfd) = 0
       THEN /\ eventfd' = eventfd
            /\ FlushLoop(IF c_current_message # None THEN "NoNewMessage"
                         ELSE "NoMessage", c_current)
       ELSE /\ eventfd' = Some(Unwrap(eventfd) - 1)
            /\ CGoto(FlushPc(FlushResult, "pop"), c_tail, c_next)
    /\ UNCHANGED <<handshake, logging, cache, queue_len, shared, messages, producer,
                   plocal, published, discarded>>

\* the queue's pop inside the loop: tail_fetch_or(CONSUMED_FLAG)
typed_flush_pop ==
    /\ c_pc \in {"flushing_pop", "flushed_pop"}
    /\ tail' = OrConsumed(tail)
    /\ IF tail = INVALID_INDEX THEN FlushLoop("NoMessage", c_current)
       ELSE IF ~is_valid_index(MaskIndex(tail))
       THEN FlushLoop("QueueError", c_current)
       ELSE IF ~Consumed(tail)
       THEN FlushLoop("SuccessMessagesDiscarded", tail)
       ELSE CGoto(FlushPc(FlushResult, "chain"), tail, c_next)
    /\ UNCHANGED <<handshake, logging, eventfd, cache, queue_len, head, chain, messages, producer, plocal, published,
                   discarded>>

\* the queue's pop inside the loop: chain_load(self.current)
typed_flush_chain_load ==
    /\ c_pc \in {"flushing_chain", "flushed_chain"}
    /\ IF chain[c_current] = INVALID_INDEX
       THEN FlushLoop("NoNewMessage", c_current)
       ELSE IF ~is_valid_index(chain[c_current])
       THEN FlushLoop("QueueError", c_current)
       ELSE CGoto(FlushPc(FlushResult, "cas"), c_tail, chain[c_current])
    /\ UNCHANGED <<handshake, logging, eventfd, cache, queue_len, shared, messages, producer, plocal, published,
                   discarded>>

\* the queue's pop inside the loop: tail_compare_exchange
typed_flush_compare_exchange ==
    /\ c_pc \in {"flushing_cas", "flushed_cas"}
    /\ IF tail = c_tail
       THEN /\ tail' = OrConsumed(c_next)
            /\ FlushLoop("Success", c_next)
       ELSE /\ tail' = tail
            /\ CGoto(FlushPc(FlushResult, "refetch"), c_tail, c_next)
    /\ UNCHANGED <<handshake, logging, eventfd, cache, queue_len, head, chain, messages, producer, plocal, published,
                   discarded>>

\* the queue's pop inside the loop: the second tail_fetch_or
typed_flush_refetch ==
    /\ c_pc \in {"flushing_refetch", "flushed_refetch"}
    /\ tail' = OrConsumed(tail)
    /\ IF ~is_valid_index(tail) THEN FlushLoop("QueueError", c_current)
       ELSE FlushLoop("SuccessMessagesDiscarded", tail)
    /\ UNCHANGED <<handshake, logging, eventfd, cache, queue_len, head, chain, messages, producer, plocal, published,
                   discarded>>

(* ------------------------- what the histories say --------------------- *)

Last(seq) == seq[Len(seq)]

RECURSIVE SelectValues(_, _)
\* the values of the entries of a log whose result is among `results`
SelectValues(log, results) ==
    IF log = <<>> THEN <<>>
    ELSE (IF log[1].result \in results THEN <<log[1].value>> ELSE <<>>)
         \o SelectValues(Tail(log), results)

PopLog == SelectSeq(c_log, LAMBDA e : e.op = "pop")

\* the values pop handed to the consumer, in order
delivered == SelectValues(PopLog, {"Success", "SuccessMessagesDiscarded"})

\* the consumer has a current message: some call returned one, or told it
\* that the one it has is still the newest
c_holds ==
    \E i \in 1 .. Len(c_log) :
        c_log[i].result \in {"Success", "SuccessMessagesDiscarded", "NoNewMessage"}

(* ---------------------------- request codec -------------------------- *)

\* the numbers of producer and of consumer channels range over 0..MaxChannels
MaxChannels == 2

RTIC_MAGIC == 7948

RTIC_VERSION == 1

\* size_of::<Header>(): four 16-bit fields
HEADER_SIZE == 8

\* size_of::<ChannelEntry>(): four 32-bit fields
ENTRY_SIZE == 16

\* size_of::<u32>(), also size_of::<Index>()
U32_SIZE == 4

\* a 16-bit and a 32-bit field as the bytes of the message (the transport is
\* intra-host, the byte order is the host's; little-endian here)
U16(v) == <<v % 256, (v \div 256) % 256>>
U32(v) ==
    <<v % 256, (v \div 256) % 256, (v \div 65536) % 256,
      (v \div 16777216) % 256>>

\* the bytes request[from .. to), offsets counted from 0 as in the code
Slice(request, from, to) == SubSeq(request, from + 1, to)

ReadU16(request, offset) == request[offset + 1] + 256 * request[offset + 2]

\* request_read::<u32>: ptr.read_unaligned()
ReadU32(request, offset) ==
    request[offset + 1] + 256 * request[offset + 2]
    + 65536 * request[offset + 3] + 16777216 * request[offset + 4]

RECURSIVE Flatten(_)
\* the concatenation of a sequence of byte strings
Flatten(seqs) ==
    IF seqs = <<>> THEN <<>> ELSE Head(seqs) \o Flatten(Tail(seqs))

\* write_header, on a host whose cache probe returns cls
write_header(cls) ==
    U16(RTIC_MAGIC) \o U16(RTIC_VERSION) \o U16(cls) \o U16(U32_SIZE)

\* verify_header, on a host whose cache probe returns cls
verify_header(buf, cls) ==
    IF Len(buf) < HEADER_SIZE THEN "SizeExceedsRequest"
    ELSE IF ReadU16(buf, 0) # RTIC_MAGIC THEN "MagicMismatch"
    ELSE IF ReadU16(buf, 2) # RTIC_VERSION THEN "VersionMismatch"
    ELSE IF ReadU16(buf, 4) # cls THEN "CachelineSizeMismatch"
    ELSE IF ReadU16(buf, 6) # U32_SIZE THEN "AtomicSizeMismatch"
    ELSE "Ok"

\* ChannelEntry::from_param, as the bytes of the entry
ChannelEntry(param) ==
    U32(param.additional_messages) \o U32(param.message_size)
    \o U32(IF param.eventfd THEN 1 ELSE 0) \o U32(Len(param.info))

\* the total length of the info blobs of a list of channels
InfoLen(params) == Len(Flatten([i \in 1 .. Len(params) |-> params[i].info]))

\* Layout::calc
Layout(vparam) ==
    LET np == Len(vparam.producers)
        nc == Len(vparam.consumers)
        table == HEADER_SIZE + 3 * U32_SIZE
        vector_info == table + (np + nc) * ENTRY_SIZE
        channel_infos == vector_info + Len(vparam.info)
    IN  [vector_info_offset |-> HEADER_SIZE,
         num_channels |-> <<HEADER_SIZE + U32_SIZE, HEADER_SIZE + 2 * U32_SIZE>>,
         channels |-> <<table, table + np * ENTRY_SIZE>>,
         vector_info |-> vector_info,
         channel_infos |-> channel_infos,
         size |-> channel_infos + InfoLen(vparam.producers)
                  + InfoLen(vparam.consumers)]

\* create_request_message: req_get_mut_ptr::<ChannelEntry>(..).unwrap() for
\* the producer and the consumer table panics when no whole entry fits
\* between the table's offset and the end of the message
CreateRequestPanics(vparam) ==
    \E k \in 1 .. 2 :
        Layout(vparam).channels[k] + ENTRY_SIZE > Layout(vparam).size

\* create_request_message: the bytes of the request, field after field at
\* the offsets of Layout
create_request_message(vparam, cls) ==
    write_header(cls)
    \o U32(Len(vparam.info))
    \o U32(Len(vparam.producers))
    \o U32(Len(vparam.consumers))
    \o Flatten([i \in 1 .. Len(vparam.producers) |->
                    ChannelEntry(vparam.producers[i])])
    \o Flatten([i \in 1 .. Len(vparam.consumers) |->
                    ChannelEntry(vparam.consumers[i])])
    \o vparam.info
    \o Flatten([i \in 1 .. Len(vparam.producers) |-> vparam.producers[i].info])
    \o Flatten([i \in 1 .. Len(vparam.consumers) |-> vparam.consumers[i].info])

\* the result of a parse that failed with the error e
ParseError(e) ==
    [err |-> e, consumers |-> <<>>, producers |-> <<>>, info |-> <<>>]

\* ChannelEntry::to_param: "Ok", or the error it returns
ToParamError(request, offset, info_offset) ==
    IF info_offset + ReadU32(request, offset + 12) > Len(request)
    THEN "OutOfBounds"
    ELSE IF ReadU32(request, offset + 4) = 0 THEN "OutOfBounds"
    ELSE "Ok"

\* ChannelEntry::to_param of the entry read at `offset`
to_param(request, offset, info_offset) ==
    [additional_messages |-> ReadU32(request, offset),
     message_size |-> ReadU32(request, offset + 4),
     info |-> Slice(request, info_offset,
                    info_offset + ReadU32(request, offset + 12)),
     eventfd |-> ReadU32(request, offset + 8) # 0]

RECURSIVE ParseEntries(_, _, _, _)
\* parse_request: one of its two loops over n entries, from the entry at
\* `offset` and the info blob at `info_offset`
ParseEntries(request, offset, info_offset, n) ==
    IF n = 0
    THEN [err |-> "Ok", params |-> <<>>, info_offset |-> info_offset]
    ELSE IF offset + ENTRY_SIZE > Len(request)
    THEN [err |-> "OutOfBounds", params |-> <<>>, info_offset |-> info_offset]
    ELSE IF ToParamError(request, offset, info_offset) # "Ok"
    THEN [err |-> ToParamError(request, offset, info_offset),
          params |-> <<>>, info_offset |-> info_offset]
    ELSE LET param == to_param(request, offset, info_offset)
             rest == ParseEntries(request, offset + ENTRY_SIZE,
                                  info_offset + Len(param.info), n - 1)
         IN  [rest EXCEPT !.params = <<param>> \o @]

\* parse_request, on a host whose cache probe returns cls: the first count
\* and the first run of entries are read as the consumers
parse_request(request, cls) ==
    IF Len(request) < HEADER_SIZE THEN ParseError("OutOfBounds")
    ELSE IF verify_header(Slice(request, 0, HEADER_SIZE), cls) # "Ok"
    THEN ParseError(verify_header(Slice(request, 0, HEADER_SIZE), cls))
    ELSE IF HEADER_SIZE + 3 * U32_SIZE > Len(request)
    THEN ParseError("OutOfBounds")
    ELSE
    LET vector_info_size == ReadU32(request, HEADER_SIZE)
        num_consumers == ReadU32(request, HEADER_SIZE + U32_SIZE)
        num_producers == ReadU32(request, HEADER_SIZE + 2 * U32_SIZE)
        offset == HEADER_SIZE + 3 * U32_SIZE
        vector_info_offset ==
            offset + (num_consumers + num_producers) * ENTRY_SIZE
        channel_info_offset == vector_info_offset + vector_info_size
    IN  IF channel_info_offset > Len(request) THEN ParseError("OutOfBounds")
        ELSE
        LET cons == ParseEntries(request, offset, channel_info_offset,
                                 num_consumers)
            prods == ParseEntries(request, offset + num_consumers * ENTRY_SIZE,
                                  cons.info_offset, num_producers)
        IN  IF cons.err # "Ok" THEN ParseError(cons.err)
            ELSE IF prods.err # "Ok" THEN ParseError(prods.err)
            ELSE [err |-> "Ok",
                  consumers |-> cons.params,
                  producers |-> prods.params,
                  info |-> Slice(request, vector_info_offset,
                                 channel_info_offset)]

(* ------------------------------ handshake ----------------------------- *)

\* the channel configurations the handshake is run with
ChannelParams ==
    {[additional_messages |-> 0, message_size |-> 8, info |-> <<>>,
      eventfd |-> FALSE],
     [additional_messages |-> 10, message_size |-> 16, info |-> <<1, 2>>,
      eventfd |-> TRUE]}

\* the sequences over S of length 0 .. n
SeqsUpTo(S, n) == UNION {[1 .. k -> S] : k \in 0 .. n}

\* the vector configurations the handshake is run with
VectorParams ==
    [producers : SeqsUpTo(ChannelParams, MaxChannels),
     consumers : SeqsUpTo(ChannelParams, MaxChannels),
     info : {<<>>, <<9>>}]

\* what max_cacheline_size() returns in a process
CachelineSizes == {64, 128}

\* mem_align
mem_align(size, alignment) == ((size + alignment - 1) \div alignment) * alignment

\* the bytes of a queue in the arena: the index region of N + 2 cells and N
\* slots, each part padded to the cache line
shm_size(param, cls) ==
    mem_align((2 + MIN_MSGS + param.additional_messages) * U32_SIZE, cls)
    + (MIN_MSGS + param.additional_messages) * mem_align(param.message_size, cls)

RECURSIVE SizeSum(_, _, _)
\* the bytes of the first n queues of a list
SizeSum(params, n, cls) ==
    IF n = 0 THEN 0
    ELSE SizeSum(params, n - 1, cls) + shm_size(params[n], cls)

\* calc_shm_size
calc_shm_size(producers, consumers, cls) ==
    SizeSum(producers, Len(producers), cls)
    + SizeSum(consumers, Len(consumers), cls)

\* a file descriptor: what it refers to, and which open file it is
Fd(kind, id) == [kind |-> kind, id |-> id]

\* the number of channels with a wake-up descriptor among the first n
EventfdCount(params, n) == Cardinality({j \in 1 .. n : params[j].eventfd})

\* ProducerChannel::new / ConsumerChannel::new over the chunk at `offset`;
\* Queue::new keeps the message size padded to the cache line
Channel(param, offset, efd, cls) ==
    [additional_messages |-> param.additional_messages,
     message_size |-> mem_align(param.message_size, cls),
     offset |-> offset,
     info |-> param.info,
     eventfd |-> efd]

\* ChannelVector::new: one of its two loops; the list starts at `offset` of
\* the arena and `fds` wake-up descriptors were created before it
NewChannels(params, offset, fds, cls) ==
    [i \in 1 .. Len(params) |->
        Some(Channel(params[i], offset + SizeSum(params, i - 1, cls),
                     IF params[i].eventfd
                     THEN Some(Fd("eventfd", fds + EventfdCount(params, i)))
                     ELSE None, cls))]

\* ChannelVector::new: the producers first, then the consumers
ChannelVectorNew(vconfig, cls) ==
    [producers |-> NewChannels(vconfig.producers, 0, 0, cls),
     consumers |-> NewChannels(vconfig.consumers,
                               SizeSum(vconfig.producers,
                                       Len(vconfig.producers), cls),
                               EventfdCount(vconfig.producers,
                                            Len(vconfig.producers)), cls),
     info |-> vconfig.info,
     shm |-> Fd("memfd", 0)]

\* filter_map(|e| e.as_ref().map(|c| c.eventfd())).flatten(): the wake-up
\* descriptors of the channels still in a list, in channel order
EventFds(channels) ==
    Flatten([i \in 1 .. Len(channels) |->
                IF channels[i] = None THEN <<>>
                ELSE Unwrap(channels[i]).eventfd])

\* ChannelVector::collect_fds
collect_fds(vec) ==
    <<vec.shm>> \o EventFds(vec.consumers) \o EventFds(vec.producers)

\* create_response: four bytes, all zero to accept and all 0xFF to reject
create_response(ok) ==
    IF ok THEN <<0, 0, 0, 0>> ELSE <<255, 255, 255, 255>>

\* parse_response
parse_response(response) ==
    IF response = <<0, 0, 0, 0>> THEN "Ok"
    ELSE IF response = <<255, 255, 255, 255>> THEN "ResponseError"
    ELSE "MalformedResponse"

RECURSIVE PopChannels(_, _)
\* Server::conditional_accept: one of its two loops; every channel with the
\* eventfd flag takes the descriptor at the front of fds
PopChannels(params, fds) ==
    IF params = <<>> THEN [err |-> "Ok", channels |-> <<>>, fds |-> fds]
    ELSE IF Head(params).eventfd /\ fds = <<>>
    THEN [err |-> "MissingFileDescriptor", channels |-> <<>>, fds |-> fds]
    ELSE LET rest == PopChannels(Tail(params),
                                 IF Head(params).eventfd THEN Tail(fds)
                                 ELSE fds)
             channel == [queue |-> Head(params),
                         eventfd |-> IF Head(params).eventfd
                                     THEN Some(Head(fds)) ELSE None]
         IN  [rest EXCEPT !.channels = <<channel>> \o @]

\* Server::conditional_accept: the VectorIn it builds from the parsed request
\* and the received descriptors: shmfd first, then the descriptors of the
\* consumers, then those of the producers
VectorIn(vconfig, fds) ==
    IF fds = <<>>
    THEN [err |-> "MissingFileDescriptor", consumers |-> <<>>,
          producers |-> <<>>, info |-> <<>>, shmfd |-> None]
    ELSE LET cons == PopChannels(vconfig.consumers, Tail(fds))
             prods == PopChannels(vconfig.producers, cons.fds)
         IN  [err |-> IF cons.err # "Ok" THEN cons.err ELSE prods.err,
              consumers |-> cons.channels,
              producers |-> prods.channels,
              info |-> vconfig.info,
              shmfd |-> Some(Head(fds))]

\* SharedMemory::from_fd: fstat and mmap succeed on a descriptor with a
\* size, a memory file or a regular file; no check of its kind
FromFdError(fd) == IF fd.kind \in {"memfd", "file"} THEN "Ok" ELSE "EBADFD"

\* into_eventfd: the link of the descriptor must start with
\* "anon_inode:[eventfd"
IntoEventfdError(fd) == IF fd.kind = "eventfd" THEN "Ok" ELSE "EBADF"

\* ChannelVector::map: "Ok", or the error of its first step that fails
MapError(vin) ==
    IF FromFdError(Unwrap(vin.shmfd)) # "Ok"
    THEN FromFdError(Unwrap(vin.shmfd))
    ELSE IF \E i \in 1 .. Len(vin.consumers) :
                /\ vin.consumers[i].eventfd # None
                /\ IntoEventfdError(Unwrap(vin.consumers[i].eventfd)) # "Ok"
    THEN "EBADF"
    ELSE IF \E i \in 1 .. Len(vin.producers) :
                /\ vin.producers[i].eventfd # None
                /\ IntoEventfdError(Unwrap(vin.producers[i].eventfd)) # "Ok"
    THEN "EBADF"
    ELSE "Ok"

\* mutant: shm_offset is not advanced inside a list
MapChannelsAtStart(cins, offset, cls) ==
    [i \in 1 .. Len(cins) |->
        Some(Channel(cins[i].queue, offset, cins[i].eventfd, cls))]

\* ChannelVector::map: one of its two loops, over the list that starts at
\* `offset` of the arena
MapChannels(cins, offset, cls) ==
    LET params == [i \in 1 .. Len(cins) |-> cins[i].queue]
    IN  [i \in 1 .. Len(cins) |->
            Some(Channel(params[i], offset + SizeSum(params, i - 1, cls),
                         cins[i].eventfd, cls))]

\* mutant: a map that hands the received lists out crosswise
ChannelVectorMapCrossed(vin, cls) ==
    [producers |-> MapChannels(vin.consumers, 0, cls),
     consumers |-> MapChannels(vin.producers, 0, cls),
     info |-> vin.info,
     shm |-> Unwrap(vin.shmfd)]

\* ChannelVector::map: the consumers first, then the producers
ChannelVectorMap(vin, cls) ==
    LET cparams == [i \in 1 .. Len(vin.consumers) |-> vin.consumers[i].queue]
    IN  [producers |-> MapChannels(vin.producers,
                                   SizeSum(cparams, Len(cparams), cls), cls),
         consumers |-> MapChannels(vin.consumers, 0, cls),
         info |-> vin.info,
         shm |-> Unwrap(vin.shmfd)]

\* Queue::len
QueueLen(param) == MIN_MSGS + param.additional_messages

\* SharedMemory::new: the index region of a queue in a fresh memory file,
\* which reads as zero
ZeroRegion(param, offset) ==
    [offset |-> offset, tail |-> 0, head |-> 0,
     chain |-> [i \in 1 .. QueueLen(param) |-> 0], writes |-> <<>>]

\* the index regions of the queues of a fresh arena: the producers' first
SharedMemoryNew(vconfig, cls) ==
    [i \in 1 .. Len(vconfig.producers) |->
        ZeroRegion(vconfig.producers[i],
                   SizeSum(vconfig.producers, i - 1, cls))]
    \o [i \in 1 .. Len(vconfig.consumers) |->
        ZeroRegion(vconfig.consumers[i],
                   SizeSum(vconfig.producers, Len(vconfig.producers), cls)
                   + SizeSum(vconfig.consumers, i - 1, cls))]

\* ProducerQueue::new: queue_store(i, i + 1) for every slot but the last and
\* queue_store(last, 0); chain[i] of the source is chain[i + 1] here
ProducerQueueNew(region, by) ==
    [region EXCEPT !.chain = [i \in DOMAIN @ |-> i % Len(@)],
                   !.writes = Append(@, [by |-> by, cells |-> "chain"])]

\* Queue::init: tail_store(INVALID_INDEX) and head_store(INVALID_INDEX)
QueueInitEnds(region, by) ==
    [region EXCEPT !.tail = INVALID_INDEX, !.head = INVALID_INDEX,
                   !.writes = Append(@, [by |-> by, cells |-> "tail, head"])]

\* ChannelVector::new: ProducerChannel::new and init for the producers,
\* ConsumerChannel::new, which writes nothing, and init for the consumers
NewCells(vconfig, cls) ==
    LET zero == SharedMemoryNew(vconfig, cls)
    IN  [i \in DOMAIN zero |->
            IF i <= Len(vconfig.producers)
            THEN QueueInitEnds(ProducerQueueNew(zero[i], "initiator"),
                               "initiator")
            ELSE QueueInitEnds(zero[i], "initiator")]

\* ChannelVector::map: the number of producers it constructs before it
\* returns
MappedProducers(vin) ==
    IF \E i \in 1 .. Len(vin.consumers) :
           /\ vin.consumers[i].eventfd # None
           /\ IntoEventfdError(Unwrap(vin.consumers[i].eventfd)) # "Ok"
    THEN 0
    ELSE LET bad == {i \in 1 .. Len(vin.producers) :
                        /\ vin.producers[i].eventfd # None
                        /\ IntoEventfdError(Unwrap(vin.producers[i].eventfd))
                               # "Ok"}
         IN  IF bad = {} THEN Len(vin.producers)
             ELSE (CHOOSE i \in bad : \A j \in bad : i <= j) - 1

\* ChannelVector::map: ConsumerChannel::new writes nothing, ProducerChannel::new
\* stores the chain of its queue; no init
MapCells(cells, vin, cls) ==
    LET vector == ChannelVectorMap(vin, cls)
        written == {Unwrap(vector.producers[k]).offset :
                       k \in {j \in DOMAIN vector.producers :
                                  j <= MappedProducers(vin)}}
    IN  [i \in DOMAIN cells |->
            IF cells[i].offset \in written
            THEN ProducerQueueNew(cells[i], "acceptor")
            ELSE cells[i]]

\* Server::conditional_accept: the cells of the arena after it; it reaches
\* ChannelVector::map when the request parses and has its descriptors, and
\* map writes once it has mapped the arena
AcceptCells(req, cls) ==
    LET vconfig == parse_request(req.content, cls)
        vin == VectorIn(vconfig, req.fds)
    IN  IF /\ vconfig.err = "Ok" /\ vin.err = "Ok"
           /\ FromFdError(Unwrap(vin.shmfd)) = "Ok"
        THEN MapCells(shm_regions, vin, cls)
        ELSE shm_regions

\* the acceptor returns from conditional_accept before it called the
\* predicate
AcceptReturns(result, vparam, mapped, vec) ==
    acceptor' = [acceptor EXCEPT !.pc = "returned", !.result = result,
                                 !.vparam = vparam, !.mapped = mapped,
                                 !.vec = vec]

\* mutant: the answer of the predicate is ignored
FilterIgnored(filter) == "Ok"

\* Server::conditional_accept: the result after the predicate
FilterResult(filter) == IF filter THEN "Ok" ELSE "ResponseError"

\* Server::conditional_accept with a predicate that returns `filter`: from
\* the receipt of the request to the return
conditional_accept(filter) ==
    /\ acceptor.pc = "accept"
    /\ socket.request # None
    /\ LET req == Unwrap(socket.request)
           vconfig == parse_request(req.content, acceptor.cls)
           vin == VectorIn(vconfig, req.fds)
           vector == ChannelVectorMap(vin, acceptor.cls)
       IN  IF vconfig.err # "Ok"
           THEN /\ AcceptReturns(vconfig.err, None, None, None)
                /\ socket' = [socket EXCEPT !.request = None]
           ELSE IF vin.err # "Ok"
           THEN /\ AcceptReturns(vin.err, Some(vconfig), None, None)
                /\ socket' = [socket EXCEPT !.request = None]
           ELSE IF MapError(vin) # "Ok"
           THEN /\ AcceptReturns(MapError(vin), Some(vconfig),
                                 IF FromFdError(Unwrap(vin.shmfd)) = "Ok"
                                 THEN vin.shmfd ELSE None,
                                 None)
                /\ socket' = [socket EXCEPT !.request = None]
           ELSE LET result == FilterResult(filter)
                    response_msg == create_response(result = "Ok")
                IN  /\ acceptor' = [acceptor EXCEPT
                            !.pc = "returned", !.result = result,
                            !.vparam = Some(vconfig), !.mapped = vin.shmfd,
                            !.vec = IF result = "Ok" THEN Some(vector)
                                    ELSE None,
                            !.filter = Some(filter),
                            !.sent = Some(response_msg)]
                    /\ socket' = [request |-> None,
                                  response |-> Some(response_msg)]
    /\ shm_regions' = AcceptCells(Unwrap(socket.request), acceptor.cls)
    /\ UNCHANGED <<initiator, takes, resource, answer, logging, eventfd,
                   cache, queue_len,
                   shared, messages, producer, plocal, clocal, consumer,
                   published, discarded>>

\* client_connect up to req.send(socket)
client_connect_send ==
    /\ initiator.pc = "start"
    /\ LET vconfig == initiator.vconfig
           vec == ChannelVectorNew(vconfig, initiator.cls)
       IN  IF calc_shm_size(vconfig.producers, vconfig.consumers,
                            initiator.cls) = 0
           THEN /\ initiator' = [initiator EXCEPT !.pc = "returned",
                                                  !.result = "InvalidConfig"]
                /\ socket' = socket
                /\ shm_regions' = shm_regions
           ELSE IF CreateRequestPanics(vconfig)
           THEN /\ initiator' = [initiator EXCEPT !.pc = "panic"]
                /\ socket' = socket
                /\ shm_regions' = NewCells(vconfig, initiator.cls)
           ELSE /\ initiator' = [initiator EXCEPT !.pc = "sent",
                                                  !.vec = Some(vec)]
                /\ shm_regions' = NewCells(vconfig, initiator.cls)
                /\ socket' = [socket EXCEPT !.request =
                        Some([content |-> create_request_message(
                                              vconfig, initiator.cls),
                              fds |-> collect_fds(vec)])]
    /\ UNCHANGED <<acceptor, takes, resource, answer, logging, eventfd,
                   cache, queue_len,
                   shared, messages, producer, plocal, clocal, consumer,
                   published, discarded>>

\* client_connect from UnixMessageRx::receive to the return
client_connect_receive ==
    /\ initiator.pc = "sent"
    /\ socket.response # None
    /\ initiator' = [initiator EXCEPT
            !.pc = "returned",
            !.result = parse_response(Unwrap(socket.response)),
            !.vec = IF parse_response(Unwrap(socket.response)) = "Ok"
                    THEN @ ELSE None]
    /\ socket' = [socket EXCEPT !.response = None]
    /\ UNCHANGED <<acceptor, takes, resource, answer, shm_regions, logging,
                   eventfd, cache, queue_len,
                   shared, messages, producer, plocal, clocal, consumer,
                   published, discarded>>

\* a peer that does not use client_connect sends a well-formed request with
\* descriptors of its own choice: the acceptor's input is any descriptor
foreign_connect_send(arena, wakeup) ==
    /\ initiator.pc = "start"
    /\ <<arena, wakeup>> # <<"memfd", "eventfd">>
    /\ calc_shm_size(initiator.vconfig.producers, initiator.vconfig.consumers,
                     initiator.cls) # 0
    /\ LET fds == collect_fds(ChannelVectorNew(initiator.vconfig,
                                               initiator.cls))
       IN  socket' = [socket EXCEPT !.request =
                Some([content |-> create_request_message(initiator.vconfig,
                                                         initiator.cls),
                      fds |-> [i \in 1 .. Len(fds) |->
                                  Fd(IF i = 1 THEN arena ELSE wakeup,
                                     fds[i].id)]])]
    /\ initiator' = [initiator EXCEPT !.pc = "foreign"]
    /\ shm_regions' = SharedMemoryNew(initiator.vconfig, initiator.cls)
    /\ UNCHANGED <<acceptor, takes, resource, answer, logging, eventfd,
                   cache, queue_len,
                   shared, messages, producer, plocal, clocal, consumer,
                   published, discarded>>

\* mutant: a take that leaves the channel in its slot
OptionKeep(slot) == slot

\* Option::take in take_consumer / take_producer: what it leaves in the slot
OptionTake(slot) == None

\* Producer::try_from / Consumer::try_from: the facade over the channel, or
\* none when the message type is larger than the channel's messages
try_from(channel, size) ==
    IF size > channel.message_size THEN None
    ELSE Some([offset |-> channel.offset, eventfd |-> channel.eventfd])

\* the frame of the operations on the vector that client_connect returned
TakeFrame ==
    UNCHANGED <<acceptor, socket, resource, answer, shm_regions, logging,
                eventfd, cache,
                queue_len, shared,
                messages, producer, plocal, clocal, consumer, published,
                discarded>>

\* ChannelVector::take_producer::<T>(index) with size_of::<T>() = size on the
\* initiator's vector; `takes` collects the facades the calls returned
take_producer(index, size) ==
    /\ initiator.pc = "returned"
    /\ initiator.vec # None
    /\ LET vec == Unwrap(initiator.vec)
       IN  IF index + 1 > Len(vec.producers)
           THEN UNCHANGED <<initiator, takes>>
           ELSE IF vec.producers[index + 1] = None
           THEN UNCHANGED <<initiator, takes>>
           ELSE /\ initiator' = [initiator EXCEPT !.vec =
                        Some([vec EXCEPT !.producers[index + 1] =
                                             OptionTake(@)])]
                /\ takes' = [takes EXCEPT !.producers[index + 1] =
                        @ \o try_from(Unwrap(vec.producers[index + 1]), size)]
    /\ TakeFrame

\* ChannelVector::take_consumer::<T>(index)
take_consumer(index, size) ==
    /\ initiator.pc = "returned"
    /\ initiator.vec # None
    /\ LET vec == Unwrap(initiator.vec)
       IN  IF index + 1 > Len(vec.consumers)
           THEN UNCHANGED <<initiator, takes>>
           ELSE IF vec.consumers[index + 1] = None
           THEN UNCHANGED <<initiator, takes>>
           ELSE /\ initiator' = [initiator EXCEPT !.vec =
                        Some([vec EXCEPT !.consumers[index + 1] =
                                             OptionTake(@)])]
                /\ takes' = [takes EXCEPT !.consumers[index + 1] =
                        @ \o try_from(Unwrap(vec.consumers[index + 1]), size)]
    /\ TakeFrame

\* VectorResource::allocate: the lists in the order of the configuration,
\* the wake-up descriptors of the producers created first
VectorResourceAllocate(vconfig) ==
    [producers |-> [i \in 1 .. Len(vconfig.producers) |->
                       [config |-> vconfig.producers[i],
                        eventfd |-> IF vconfig.producers[i].eventfd
                                    THEN Some(Fd("eventfd",
                                         EventfdCount(vconfig.producers, i)))
                                    ELSE None]],
     consumers |-> [i \in 1 .. Len(vconfig.consumers) |->
                       [config |-> vconfig.consumers[i],
                        eventfd |-> IF vconfig.consumers[i].eventfd
                                    THEN Some(Fd("eventfd",
                                         EventfdCount(vconfig.producers,
                                                      Len(vconfig.producers))
                                         + EventfdCount(vconfig.consumers, i)))
                                    ELSE None]],
     info |-> vconfig.info,
     shmfd |-> Fd("memfd", 0),
     owner |-> TRUE]

\* VectorResource::consumer_info
ResourceConsumerInfo(res, index) ==
    IF index + 1 > Len(res.consumers) THEN None
    ELSE Some(res.consumers[index + 1].config.info)

\* VectorResource::producer_info
ResourceProducerInfo(res, index) ==
    IF index + 1 > Len(res.consumers) THEN None
    ELSE Some(res.consumers[index + 1].config.info)

\* ChannelVector::consumer_info
consumer_info(vec, index) ==
    IF index + 1 > Len(vec.consumers) THEN None
    ELSE IF vec.consumers[index + 1] = None THEN None
    ELSE Some(Unwrap(vec.consumers[index + 1]).info)

\* ChannelVector::producer_info
producer_info(vec, index) ==
    IF index + 1 > Len(vec.producers) THEN None
    ELSE IF vec.producers[index + 1] = None THEN None
    ELSE Some(Unwrap(vec.producers[index + 1]).info)

\* the frame of the operations on a VectorResource and of the info accessors
InfoFrame ==
    UNCHANGED <<initiator, acceptor, socket, takes, shm_regions, logging,
                eventfd, cache,
                queue_len, shared, messages, producer, plocal, clocal,
                consumer, published, discarded>>

\* VectorResource::allocate(&vconfig)
allocate ==
    /\ resource = None
    /\ calc_shm_size(initiator.vconfig.producers, initiator.vconfig.consumers,
                     initiator.cls) # 0
    /\ resource' = Some(VectorResourceAllocate(initiator.vconfig))
    /\ UNCHANGED answer
    /\ InfoFrame

\* an info accessor returns
Answers(vector, call, index, ret) ==
    answer' = Some([vector |-> vector, call |-> call, index |-> index,
                    ret |-> ret])

\* VectorResource::producer_info(index), consumer_info(index), info()
resource_info(index) ==
    /\ resource # None
    /\ \/ Answers("VectorResource", "producer_info", index,
                   ResourceProducerInfo(Unwrap(resource), index))
       \/ Answers("VectorResource", "consumer_info", index,
                   ResourceConsumerInfo(Unwrap(resource), index))
       \/ index = 0 /\ Answers("VectorResource", "info", index,
                                Some(Unwrap(resource).info))
    /\ UNCHANGED resource
    /\ InfoFrame

\* ChannelVector::producer_info(index), consumer_info(index), info() on the
\* vector that client_connect returned
vector_info(index) ==
    /\ initiator.pc = "returned"
    /\ initiator.vec # None
    /\ \/ Answers("ChannelVector", "producer_info", index,
                   producer_info(Unwrap(initiator.vec), index))
       \/ Answers("ChannelVector", "consumer_info", index,
                   consumer_info(Unwrap(initiator.vec), index))
       \/ index = 0 /\ Answers("ChannelVector", "info", index,
                                Some(Unwrap(initiator.vec).info))
    /\ UNCHANGED resource
    /\ InfoFrame

(* --------------------------- specification ---------------------------- *)

Next ==
    \/ force_push
    \/ try_push
    \/ enqueue_first_tail
    \/ enqueue_first_head
    \/ enqueue_chain
    \/ enqueue_link
    \/ enqueue_head
    \/ force_load_tail
    \/ force_move_tail
    \/ force_overrun
    \/ requeue_overrun
    \/ pop
    \/ pop_chain_load
    \/ pop_compare_exchange
    \/ pop_refetch
    \/ flush
    \/ flush_head_load
    \/ flush_compare_exchange

Spec == Init /\ [][Next]_vars

\* a consumer that only pops
NextPop ==
    \/ force_push
    \/ try_push
    \/ enqueue_first_tail
    \/ enqueue_first_head
    \/ enqueue_chain
    \/ enqueue_link
    \/ enqueue_head
    \/ force_load_tail
    \/ force_move_tail
    \/ force_overrun
    \/ requeue_overrun
    \/ pop
    \/ pop_chain_load
    \/ pop_compare_exchange
    \/ pop_refetch

SpecPop == Init /\ [][NextPop]_vars

\* a producer that only uses try_push and a consumer that only pops
NextTry ==
    \/ try_push
    \/ enqueue_first_tail
    \/ enqueue_first_head
    \/ enqueue_chain
    \/ enqueue_link
    \/ enqueue_head
    \/ pop
    \/ pop_chain_load
    \/ pop_compare_exchange

SpecTry == Init /\ [][NextTry]_vars

\* the atomic steps of the producer and of the consumer
ProducerStep ==
    \/ force_push
    \/ try_push
    \/ enqueue_first_tail
    \/ enqueue_first_head
    \/ enqueue_chain
    \/ enqueue_link
    \/ enqueue_head
    \/ force_load_tail
    \/ force_move_tail
    \/ force_overrun
    \/ requeue_overrun

ConsumerStep ==
    \/ pop
    \/ pop_chain_load
    \/ pop_compare_exchange
    \/ pop_refetch
    \/ flush
    \/ flush_head_load
    \/ flush_compare_exchange

\* the queue used without end: the calls are neither counted nor recorded
InitWait ==
    QueueInit /\ NoHandshake /\ logging = FALSE /\ eventfd = None /\ cache = None

NextWait == ProducerStep \/ ConsumerStep

\* both processes keep running: a process that can take a step takes one
SpecWait ==
    InitWait /\ [][NextWait]_vars /\ WF_vars(ProducerStep) /\ WF_vars(ConsumerStep)

\* a channel with a wake-up descriptor, used through the typed producer and
\* the typed consumer's pop
InitEventfd ==
    QueueInit /\ NoHandshake /\ logging = TRUE /\ eventfd = Some(0) /\ cache = None

NextEventfd ==
    \/ force_push
    \/ try_push
    \/ enqueue_first_tail
    \/ enqueue_first_head
    \/ enqueue_chain
    \/ enqueue_link
    \/ enqueue_head
    \/ force_load_tail
    \/ force_move_tail
    \/ force_overrun
    \/ requeue_overrun
    \/ eventfd_write
    \/ pop_eventfd_read
    \/ pop
    \/ pop_chain_load
    \/ pop_compare_exchange
    \/ pop_refetch

SpecEventfd == InitEventfd /\ [][NextEventfd]_vars

\* a channel with a wake-up descriptor whose consumer pops and flushes
NextTypedFlush ==
    \/ NextEventfd
    \/ typed_flush_eventfd_read
    \/ typed_flush_pop
    \/ typed_flush_chain_load
    \/ typed_flush_compare_exchange
    \/ typed_flush_refetch

SpecTypedFlush == InitEventfd /\ [][NextTypedFlush]_vars

\* a channel without a wake-up descriptor whose typed producer uses the cache
NextCache ==
    \/ force_push
    \/ try_push
    \/ try_push_cached
    \/ enqueue_first_tail
    \/ enqueue_first_head
    \/ enqueue_chain
    \/ enqueue_link
    \/ enqueue_head
    \/ force_load_tail
    \/ force_move_tail
    \/ force_overrun
    \/ requeue_overrun
    \/ write_message
    \/ enable_cache
    \/ disable_cache
    \/ pop
    \/ pop_chain_load
    \/ pop_compare_exchange
    \/ pop_refetch

SpecCache == Init /\ [][NextCache]_vars

\* a typed producer that enables the cache and keeps it enabled
NextCacheOn ==
    \/ force_push
    \/ try_push
    \/ try_push_cached
    \/ enqueue_first_tail
    \/ enqueue_first_head
    \/ enqueue_chain
    \/ enqueue_link
    \/ enqueue_head
    \/ force_load_tail
    \/ force_move_tail
    \/ force_overrun
    \/ requeue_overrun
    \/ write_message
    \/ enable_cache
    \/ pop
    \/ pop_chain_load
    \/ pop_compare_exchange
    \/ pop_refetch

SpecCacheOn == Init /\ [][NextCacheOn]_vars

\* the two processes before the handshake; the queues are not in use yet
InitHandshake ==
    /\ QueueInit
    /\ queue_len = MIN_MSGS
    /\ logging = TRUE /\ eventfd = None /\ cache = None
    /\ \E vconfig \in VectorParams, cls \in CachelineSizes :
        initiator = [pc |-> "start", cls |-> cls, vconfig |-> vconfig,
                     vec |-> None, result |-> "none"]
    /\ acceptor = [pc |-> "accept", cls |-> 64, vparam |-> None,
                   mapped |-> None, vec |-> None, filter |-> None,
                   sent |-> None, result |-> "none"]
    /\ socket = [request |-> None, response |-> None]
    /\ takes = [producers |-> [i \in 1 .. Len(initiator.vconfig.producers)
                                  |-> <<>>],
                consumers |-> [i \in 1 .. Len(initiator.vconfig.consumers)
                                  |-> <<>>]]
    /\ resource = None
    /\ answer = None
    /\ shm_regions = <<>>

\* the sizes of the message types the facades are taken with
TypeSizes == {8, 128}

NextHandshake ==
    \/ client_connect_send
    \/ \E arena \in {"memfd", "file", "socket"}, wakeup \in {"eventfd", "socket"} :
            foreign_connect_send(arena, wakeup)
    \/ \E filter \in BOOLEAN : conditional_accept(filter)
    \/ client_connect_receive
    \/ \E index \in 0 .. MaxChannels, size \in TypeSizes :
            take_producer(index, size)
    \/ \E index \in 0 .. MaxChannels, size \in TypeSizes :
            take_consumer(index, size)

SpecHandshake == InitHandshake /\ [][NextHandshake]_vars

\* the handshake, the resources of a vector and the info accessors
NextInfo ==
    \/ NextHandshake
    \/ allocate
    \/ \E index \in 0 .. MaxChannels : resource_info(index)
    \/ \E index \in 0 .. MaxChannels : vector_info(index)

SpecInfo == InitHandshake /\ [][NextInfo]_vars

(* ------------------------------ properties ---------------------------- *)

\* C1: slot exclusivity.  Whenever the producer is between two pushes (it is
\* free to write its current slot) and the consumer has returned from a pop
\* or flush that gave it a current message, the two current slots differ.
SlotExclusivity ==
    (p_pc = "idle" /\ c_pc = "idle" /\ c_holds) => p_current # c_current

\* C2: ordering and no ghost messages.  The values delivered by pops that
\* returned Success or SuccessMessagesDiscarded were all published, and they
\* appear in the order of their publication, none of them twice.
DeliveredInPublishOrder ==
    \A i \in 1 .. Len(delivered) :
        /\ \E k \in 1 .. Len(published) : published[k] = delivered[i]
        /\ \A j \in 1 .. (i - 1) :
              \E k1, k2 \in 1 .. Len(published) :
                  /\ k1 < k2
                  /\ published[k1] = delivered[j]
                  /\ published[k2] = delivered[i]

\* C2 witness: pops delivered two messages and skipped a published one
DeliveredWithGap ==
    /\ Len(delivered) >= 2
    /\ delivered[2] > delivered[1] + 1
    /\ c_pc = "idle"

\* the least element of a non-empty set of message values
Min(S) == CHOOSE x \in S : \A y \in S : x <= y

\* the set of elements of a sequence
Rng(seq) == { seq[i] : i \in 1 .. Len(seq) }

\* C3: force_push always publishes and never reports full.  The step that
\* returns from a force_push returns Success or SuccessMessageDiscarded and the
\* message of that call is then the newest published one; it returns
\* SuccessMessageDiscarded exactly when it removed one message from the queue,
\* and that message is the oldest unread one, published and not delivered;
\* no other step of a force_push removes an unread message.
ForcePushDiscardsOldest ==
    [][(p_op = "force_push" \/ p_op' = "force_push") =>
        IF Len(p_log') > Len(p_log)
        THEN /\ Last(p_log').result \in {"Success", "SuccessMessageDiscarded"}
             /\ Last(p_log').value = Last(published')
             /\ IF Last(p_log').result = "SuccessMessageDiscarded"
                THEN /\ UnreadValues # {}
                     /\ discarded' \ discarded = {Min(UnreadValues)}
                     /\ (discarded' \ discarded) \subseteq
                            (Rng(published) \ Rng(delivered))
                ELSE discarded' = discarded
        ELSE discarded' = discarded]_vars

\* C4: a try_push that returns QueueFull has mutated nothing.  The step that
\* returns QueueFull is the whole call (it starts with the producer idle) and
\* leaves the shared cells tail, head and chain and the producer's chain
\* mirror, head, current and overrun unchanged.
TryPushFullMutatesNothing ==
    [][(/\ Len(p_log') > Len(p_log)
        /\ Last(p_log').op = "try_push"
        /\ Last(p_log').result = "QueueFull")
       => (/\ p_pc = "idle"
           /\ UNCHANGED <<tail, head, chain, p_chain, p_head, p_current,
                          p_overrun>>)]_vars

\* C4 witness: a try_push returned QueueFull on a queue with messages in it
TryPushReturnedFull ==
    /\ p_pc = "idle"
    /\ Len(p_log) >= 1
    /\ Last(p_log).op = "try_push"
    /\ Last(p_log).result = "QueueFull"
    /\ UnreadValues # {}

\* the unread messages, oldest first
UnreadSeq == [i \in 1 .. Len(UnreadSlots) |-> messages[UnreadSlots[i]]]

\* C5: try_push never overwrites.  With a producer that only uses try_push
\* and a consumer that only pops, no published message is ever discarded: the
\* published messages are, in publish order and each once, the ones pops
\* delivered followed by the ones still unread in the queue; every try_push
\* that returned Success published its message; and a pop returns without a
\* message only when no published message is left unread.
TryPushNeverOverwrites ==
    /\ [](/\ discarded = {}
          /\ published = delivered \o UnreadSeq
          /\ \A i, j \in 1 .. Len(published) :
                published[i] = published[j] => i = j
          /\ \A i \in 1 .. Len(p_log) :
                p_log[i].result = "Success" => p_log[i].value \in Rng(published))
    /\ [][(/\ Len(c_log') > Len(c_log)
            /\ Last(c_log').result \in {"NoMessage", "NoNewMessage"})
           => UnreadSeq = <<>>]_vars

\* C5 witness: a try_push found the queue full, pops delivered three messages
\* and a later pop found the queue empty
FullThenDrained ==
    /\ Len(delivered) >= 3
    /\ \E i \in 1 .. Len(p_log) : p_log[i].result = "QueueFull"
    /\ Last(c_log).result = "NoNewMessage"
    /\ c_pc = "idle"

\* the pops that handed a message to the consumer, in order
PopGets ==
    SelectSeq(PopLog,
              LAMBDA e : e.result \in {"Success", "SuccessMessagesDiscarded"})

\* the calls, pop or flush, that handed a message to the consumer, in order
Gets ==
    SelectSeq(c_log,
              LAMBDA e : e.result \in {"Success", "SuccessMessagesDiscarded"})

\* C6: a pop returns SuccessMessagesDiscarded only when the producer has
\* discarded a message published after the one the previous pop delivered and
\* before the one this pop delivers; with no such discard a pop that delivers
\* a message returns Success.  In particular one push followed by one pop on a
\* fresh queue returns Success with the pushed message.
PopDiscardedOnlyAfterDiscard ==
    \A i \in 1 .. Len(PopGets) :
        PopGets[i].result = "SuccessMessagesDiscarded" =>
            \E d \in discarded :
                /\ d < PopGets[i].value
                /\ i > 1 => d > PopGets[i - 1].value

\* C7: every gap is reported.  A pop that returns Success delivers the
\* immediate successor, in publish order, of the message the consumer held
\* before (the first message when it held none).
PopSuccessSkipsNothing ==
    \A i \in 1 .. Len(Gets) :
        (Gets[i].op = "pop" /\ Gets[i].result = "Success") =>
            Gets[i].value = (IF i = 1 THEN 1 ELSE Gets[i - 1].value + 1)

\* four force_push calls, and nothing else, have returned
PushedFour ==
    /\ p_pc = "idle"
    /\ Len(p_log) = 4
    /\ \A i \in 1 .. 4 : p_log[i] = [op |-> "force_push",
                                     result |-> p_log[i].result, value |-> i]

\* the record of a pop in the consumer's log
PopEntry(r, v) == [op |-> "pop", result |-> r, value |-> v]

\* C8, as the code behaves: scenario S2.  With N = 3, after four force_push
\* calls of the messages 1, 2, 3, 4 and no pop or flush before them, the next
\* pop returns SuccessMessagesDiscarded and delivers 3, the oldest message
\* still queued; the pop after it returns Success and delivers 4; a third
\* pop returns NoNewMessage.
S2PopsOldestThenNewest ==
    [][(queue_len = 3 /\ PushedFour /\ Len(c_log') > Len(c_log)) =>
        /\ (c_pc = "idle" /\ c_log = <<>>) =>
               c_log' = <<PopEntry("SuccessMessagesDiscarded", 3)>>
        /\ c_log = <<PopEntry("SuccessMessagesDiscarded", 3)>> =>
               c_log' = Append(c_log, PopEntry("Success", 4))
        /\ c_log = <<PopEntry("SuccessMessagesDiscarded", 3),
                     PopEntry("Success", 4)>> =>
               c_log' = Append(c_log, PopEntry("NoNewMessage", 4))]_vars

\* C8 witness: the three pops of the scenario have returned
S2ThreePops ==
    /\ queue_len = 3
    /\ PushedFour
    /\ c_pc = "idle"
    /\ c_log = <<PopEntry("SuccessMessagesDiscarded", 3),
                 PopEntry("Success", 4), PopEntry("NoNewMessage", 4)>>

\* C8, as the specification states it: the pop after the four force_push
\* calls returns SuccessMessagesDiscarded and delivers 4, and the pop after
\* that returns NoNewMessage.
S2PopsNewest ==
    [][(queue_len = 3 /\ PushedFour /\ Len(c_log') > Len(c_log)) =>
        /\ (c_pc = "idle" /\ c_log = <<>>) =>
               c_log' = <<PopEntry("SuccessMessagesDiscarded", 4)>>
        /\ (Len(c_log) = 1 /\ c_log[1].op = "pop"
              /\ c_log[1].result = "SuccessMessagesDiscarded") =>
               c_log' = Append(c_log, PopEntry("NoNewMessage", c_log[1].value))]_vars

\* C9, as the code behaves: scenario S3, capacity.  On a fresh queue of N
\* slots with no pop, the first N - 1 try_push calls return Success and every
\* later one returns QueueFull: with N = 3 the first two succeed and the
\* third and the fourth return QueueFull.
S3CapacityIsNMinusOne ==
    c_log = <<>> =>
        \A i \in 1 .. Len(p_log) :
            /\ p_log[i].op = "try_push"
            /\ p_log[i].result =
                  (IF i <= queue_len - 1 THEN "Success" ELSE "QueueFull")

\* C9 witness: four try_push calls on a queue of three slots, none popped
S3FourTryPushes ==
    /\ queue_len = 3
    /\ c_log = <<>>
    /\ p_pc = "idle"
    /\ Len(p_log) = 4
    /\ p_log[3].result = "QueueFull"

\* C9, as the specification states it: with N = 3 and no pop the first three
\* try_push calls return Success and the fourth returns QueueFull.
S3ThreeSucceed ==
    (queue_len = 3 /\ c_log = <<>>) =>
        \A i \in 1 .. Len(p_log) :
            p_log[i].result = (IF i <= 3 THEN "Success" ELSE "QueueFull")

\* C10: scenario S3, one pop frees one place.  When the last try_push on a
\* queue filled only by try_push returned QueueFull and nothing was popped,
\* the pop that follows returns Success and delivers message 1, and the
\* try_push retried after that pop returns Success.
S3PopFreesOnePlace ==
    [][(/\ p_pc = "idle"
        /\ p_log # <<>>
        /\ Last(p_log).result = "QueueFull"
        /\ c_pc = "idle") =>
        /\ (c_log = <<>> /\ Len(c_log') > Len(c_log)) =>
               c_log' = <<PopEntry("Success", 1)>>
        /\ (Len(c_log) = 1 /\ PopGets = c_log /\ Len(p_log') > Len(p_log)) =>
               Last(p_log').result = "Success"]_vars

\* C11: no spurious QueueError.  No push, pop or flush that has returned, in
\* any interleaving of the atomic steps of the producer and the consumer,
\* returned QueueError.
NoQueueError ==
    /\ \A i \in 1 .. Len(p_log) : p_log[i].result # "QueueError"
    /\ \A i \in 1 .. Len(c_log) : c_log[i].result # "QueueError"

\* C12: wait-freedom on both sides.  A process that keeps taking its own
\* steps returns from every call it has started, whatever the peer does: a
\* push in progress returns, and a pop or flush in progress returns.
EveryCallReturns ==
    /\ (p_pc \notin {"idle", "panic"}) ~> (p_pc \in {"idle", "panic"})
    /\ (c_pc \notin {"idle", "panic"}) ~> (c_pc \in {"idle", "panic"})

\* the step is the first atomic step of a pop
PopStarts ==
    /\ c_pc = "idle"
    /\ \/ c_pc' \in {"pop_chain", "pop_cas", "pop_refetch"}
       \/ Len(c_log') > Len(c_log) /\ Last(c_log').op = "pop"

\* the step returns from a pop with the result r
PopReturns(r) ==
    /\ Len(c_log') > Len(c_log)
    /\ Last(c_log').op = "pop"
    /\ Last(c_log').result = r

\* C13: pop returns NoMessage if and only if nothing was ever published.  A
\* pop that starts when nothing has been published finds the sentinel in tail,
\* leaves it there and returns NoMessage at once; a pop that starts after the
\* first publication finds a tail that is not the sentinel and does not return
\* NoMessage, neither in its first step nor in a later one.
PopNoMessageIffNothingPublished ==
    [][/\ PopStarts =>
            IF published = <<>>
            THEN tail = INVALID_INDEX /\ tail' = INVALID_INDEX
                 /\ PopReturns("NoMessage")
            ELSE tail # INVALID_INDEX /\ ~PopReturns("NoMessage")
       /\ PopReturns("NoMessage") => PopStarts]_vars

\* C13 witness: a pop returned NoMessage and a later pop delivered a message
NoMessageThenDelivered ==
    /\ c_log # <<>>
    /\ c_log[1] = PopEntry("NoMessage", c_log[1].value)
    /\ Len(delivered) >= 1
    /\ c_pc = "idle"

\* C14: pop returns NoNewMessage exactly when the consumer already holds the
\* most recently published message.  The step that returns NoNewMessage is
\* the chain load of pop; it finds the sentinel in the chain cell of the
\* current slot, that slot holds the newest published message, which is the
\* one delivered last, and the step changes neither current nor tail; and a
\* chain load made while the current slot holds the newest published message
\* returns NoNewMessage.
PopNoNewMessageHoldsNewest ==
    [][/\ PopReturns("NoNewMessage") =>
            /\ c_pc = "pop_chain"
            /\ chain[c_current] = INVALID_INDEX
            /\ c_current' = c_current /\ tail' = tail
            /\ published # <<>> /\ messages[c_current] = Last(published)
            /\ Gets # <<>> /\ Last(c_log').value = Last(Gets).value
       /\ (/\ c_pc = "pop_chain" /\ c_pc' # c_pc
           /\ published # <<>> /\ messages[c_current] = Last(published))
            => PopReturns("NoNewMessage")]_vars

\* the step returns from a flush
FlushReturns == Len(c_log') > Len(c_log) /\ Last(c_log').op = "flush"

\* C15: queue-level flush.  A flush returns NoMessage when nothing has been
\* published and Success otherwise; the slot it makes current is the head it
\* loaded during the call, and tail names that slot with the consumed flag;
\* when the producer is idle and that slot is still the head, it holds the
\* newest published message and its chain cell is the sentinel, so that a pop
\* right after the flush returns NoNewMessage.
FlushDeliversHead ==
    [][/\ FlushReturns =>
            IF published = <<>> THEN Last(c_log').result = "NoMessage"
            ELSE /\ Last(c_log').result = "Success"
                 /\ c_pc = "flush_cas"
                 /\ c_current' = c_next
                 /\ tail' = OrConsumed(c_next)
       /\ (c_pc = "flush_head" /\ c_pc' = "flush_cas") => c_next' = head
       /\ (/\ FlushReturns /\ Last(c_log').result = "Success"
           /\ p_pc = "idle" /\ head = c_next) =>
            /\ chain[c_next] = INVALID_INDEX
            /\ messages[c_next] = Last(published)]_vars

\* the step returns from a push with the result r
PushReturns(r) ==
    /\ Len(p_log') > Len(p_log)
    /\ Last(p_log').result = r

\* C16: on a channel with a wake-up descriptor every successful push, Success
\* as well as SuccessMessageDiscarded, goes on to increment the descriptor
\* before the typed call returns, and a push that returns QueueFull does not;
\* the producer changes the descriptor in that step only, by exactly 1.
EventfdCountsSuccessfulPushes ==
    [][/\ PushReturns("Success") => p_pc' = "notify"
       /\ PushReturns("SuccessMessageDiscarded") => p_pc' = "notify"
       /\ PushReturns("QueueFull") => p_pc' = "idle"
       /\ p_pc = "notify" /\ p_pc' # "notify"
            => eventfd' = Some(Unwrap(eventfd) + 1)
       /\ (p_pc # "notify" \/ p_pc' = "notify")
            => Unwrap(eventfd') <= Unwrap(eventfd)]_vars

\* the step makes a message visible to the consumer
Publishes == Len(published') > Len(published)

\* C17: with the cache enabled, the message a typed force_push publishes, the
\* one the consumer pops later, is the value last written through
\* current_message() before the push, i.e. the content of the cache.
CachedForcePushPublishesCache ==
    [][cache # None /\ p_op = "force_push" /\ Publishes
            => Last(published') = Unwrap(cache)]_vars

\* the step is the full test of a typed try_push with the cache enabled
CachedTryPushStarts ==
    /\ p_pc = "idle"
    /\ cache # None
    /\ p_pc' = "try_queue" \/ PushReturns("QueueFull")

\* C18: with the cache enabled, typed try_push returns QueueFull from its
\* full test exactly in the states where the queue's try_push would return
\* QueueFull, without touching the queue or the slots; in every other state
\* it goes on to the queue's try_push, which then does not return QueueFull.
\* (What it publishes is the subject of C17.)
CachedTryPushFullIffQueueFull ==
    [][/\ CachedTryPushStarts
            => /\ PushReturns("QueueFull") <=> WouldReturnQueueFull
               /\ UNCHANGED <<shared, messages, cache>>
       /\ p_pc = "try_queue" => ~PushReturns("QueueFull")]_vars

\* the producer is between two pushes with the cache enabled, before and
\* after the step
CacheEnabledBetweenPushes ==
    /\ cache # None /\ cache' # None
    /\ p_pc = "idle" /\ p_pc' = "idle"

\* C19: while the cache is enabled and no push is in progress, nothing the
\* producer does, writing through current_message() in particular, changes
\* shared memory: the slots, head and the chain keep their content, nothing
\* new becomes visible to the consumer, and tail changes only in a step of
\* the consumer.
CacheWritesStayPrivate ==
    [][CacheEnabledBetweenPushes
            => /\ UNCHANGED <<messages, head, chain, published>>
               /\ tail' # tail => c_pc' # c_pc \/ c_log' # c_log]_vars

\* C19 witness: after a push and a delivery, the cache holds a message written
\* through current_message() that is in no slot
CacheHoldsUnpublishedWrite ==
    /\ cache = Some(Len(published) + 1)
    /\ p_pc = "idle"
    /\ published # <<>>
    /\ delivered # <<>>
    /\ \A i \in Slots : messages[i] # Unwrap(cache)

\* some pop or flush has handed a message to the consumer
EverDelivered ==
    \E i \in 1 .. Len(c_log) :
        c_log[i].result \in {"Success", "SuccessMessagesDiscarded"}

\* C20: the consumer's current_message() returns nothing as long as no pop
\* or flush has delivered a message, and a message afterwards.
CurrentMessageOnlyAfterDelivery ==
    c_pc = "idle" => (c_current_message # None <=> EverDelivered)

\* the step is the first one of a typed pop on a channel with a descriptor
TypedPopStarts ==
    /\ eventfd # None
    /\ c_pc = "idle"
    /\ c_pc' # "idle" \/ c_log' # c_log

\* C21: a typed pop that finds no unit in the descriptor returns NoNewMessage
\* if a message was delivered to the consumer before and NoMessage if none
\* ever was, and leaves the queue and the descriptor alone; a typed pop that
\* finds a unit takes exactly one and goes on to the queue's pop.
TypedPopWithoutUnit ==
    [][TypedPopStarts =>
            IF Unwrap(eventfd) = 0
            THEN /\ PopReturns(IF EverDelivered THEN "NoNewMessage"
                               ELSE "NoMessage")
                 /\ UNCHANGED <<shared, messages, eventfd>>
            ELSE /\ c_pc' = "pop_queue"
                 /\ eventfd' = Some(Unwrap(eventfd) - 1)
                 /\ UNCHANGED <<shared, messages, c_log>>]_vars

\* the facades that the take calls on the initiator's vector have returned
FacadesTaken == Flatten(takes.producers) \o Flatten(takes.consumers)

\* C22: over any sequence of take_producer(i) calls at most one returns a
\* facade, so every call after a successful one returns none; the same for
\* take_consumer(i); no two facades refer to the same end of a queue
SingleTake ==
    /\ \A i \in DOMAIN takes.producers : Len(takes.producers[i]) <= 1
    /\ \A i \in DOMAIN takes.consumers : Len(takes.consumers[i]) <= 1
    /\ \A a, b \in DOMAIN FacadesTaken :
           a # b => FacadesTaken[a].offset # FacadesTaken[b].offset

\* a producer and a consumer facade have been taken and their slots are empty
TakenOnce ==
    /\ initiator.vec # None
    /\ \E i \in DOMAIN takes.producers :
           /\ Len(takes.producers[i]) = 1
           /\ Unwrap(initiator.vec).producers[i] = None
    /\ \E i \in DOMAIN takes.consumers :
           /\ Len(takes.consumers[i]) = 1
           /\ Unwrap(initiator.vec).consumers[i] = None

\* the configuration of the channels in a list of a vector
ParamsOf(channels) ==
    [i \in 1 .. Len(channels) |->
        [additional_messages |-> Unwrap(channels[i]).additional_messages,
         message_size |-> Unwrap(channels[i]).message_size,
         info |-> Unwrap(channels[i]).info,
         eventfd |-> Unwrap(channels[i]).eventfd # None]]

\* C23: after a successful handshake the acceptor's producers are the
\* initiator's consumers and its consumers the initiator's producers, in the
\* same order and with the same additional_messages, message_size, wake-up
\* flag and info, and the vector info is the same
HandshakeRoundTrip ==
    acceptor.vec # None =>
        LET created == ChannelVectorNew(initiator.vconfig, initiator.cls)
        IN  /\ ParamsOf(Unwrap(acceptor.vec).producers)
                   = ParamsOf(created.consumers)
            /\ ParamsOf(Unwrap(acceptor.vec).consumers)
                   = ParamsOf(created.producers)
            /\ Unwrap(acceptor.vec).info = created.info

\* client_connect returned a vector whose two lists differ in length and
\* content, and the acceptor returned its own
HandshakeDone ==
    /\ initiator.pc = "returned" /\ initiator.result = "Ok"
    /\ acceptor.vec # None
    /\ Len(initiator.vconfig.producers) = 2
    /\ Len(initiator.vconfig.consumers) = 1
    /\ initiator.vconfig.producers[1] # initiator.vconfig.producers[2]
    /\ initiator.vconfig.info # <<>>

\* the wake-up descriptors of the channels in a list of a vector
EventfdsOf(channels) ==
    [i \in 1 .. Len(channels) |-> Unwrap(channels[i]).eventfd]

\* C24: after a handshake with client_connect, the acceptor's view of every
\* queue holds the wake-up descriptor the initiator attached to that queue,
\* and none for a queue without the eventfd flag
WakeupPairing ==
    (acceptor.vec # None /\ initiator.pc # "foreign") =>
        LET created == ChannelVectorNew(initiator.vconfig, initiator.cls)
        IN  /\ EventfdsOf(Unwrap(acceptor.vec).consumers)
                   = EventfdsOf(created.producers)
            /\ EventfdsOf(Unwrap(acceptor.vec).producers)
                   = EventfdsOf(created.consumers)

\* C25: the request of client_connect carries the arena descriptor first,
\* then the wake-up descriptors of the initiator's producers in channel
\* order, then those of its consumers in channel order
AncillaryOrder ==
    (socket.request # None /\ initiator.pc = "sent") =>
        LET created == ChannelVectorNew(initiator.vconfig, initiator.cls)
        IN  Unwrap(socket.request).fds
                = <<created.shm>> \o EventFds(created.producers)
                      \o EventFds(created.consumers)

\* C26: client_connect returns a vector only if the acceptor parsed the
\* request, mapped the arena, got true from its predicate and sent the accept
\* response; when the predicate returns false the acceptor sends the reject
\* response and returns an error, and the initiator returns an error and no
\* vector
HandshakeAgreement ==
    /\ (initiator.pc = "returned" /\ initiator.vec # None) =>
           /\ acceptor.pc = "returned" /\ acceptor.result = "Ok"
           /\ acceptor.vparam # None
           /\ acceptor.mapped # None
           /\ acceptor.filter = Some(TRUE)
           /\ acceptor.sent = Some(create_response(TRUE))
    /\ acceptor.filter = Some(FALSE) =>
           /\ acceptor.sent = Some(create_response(FALSE))
           /\ acceptor.result # "Ok" /\ acceptor.vec = None
           /\ initiator.pc = "returned" =>
                  initiator.result # "Ok" /\ initiator.vec = None

\* the predicate returned false and client_connect has returned
RejectedAndReturned ==
    /\ acceptor.filter = Some(FALSE)
    /\ initiator.pc = "returned"
    /\ initiator.result = "ResponseError"

\* C27: when the cache-line size in the header of the request differs from
\* the acceptor's, the acceptor has sent the reject response by the time
\* conditional_accept returns the error
MismatchRejected ==
    (acceptor.pc = "returned" /\ acceptor.result = "CachelineSizeMismatch") =>
        acceptor.sent = Some(create_response(FALSE))

\* C28: the acceptor maps the arena descriptor only if it refers to a memory
\* file and uses a received descriptor for wake-ups only if it refers to an
\* event object; with a descriptor of another kind no vector is returned
DescriptorsValidated ==
    /\ acceptor.mapped # None => Unwrap(acceptor.mapped).kind = "memfd"
    /\ acceptor.vec # None =>
           LET vec == Unwrap(acceptor.vec)
               fds == EventFds(vec.consumers) \o EventFds(vec.producers)
           IN  /\ vec.shm.kind = "memfd"
               /\ \A i \in DOMAIN fds : fds[i].kind = "eventfd"

\* C29: for every valid configuration the request is encoded, and parsing
\* the encoded request returns the same vector info, the same producer list
\* and the same consumer list
CodecRoundTrip ==
    /\ initiator.pc # "panic"
    /\ (acceptor.vparam # None /\ initiator.pc # "foreign") =>
           /\ Unwrap(acceptor.vparam).info = initiator.vconfig.info
           /\ Unwrap(acceptor.vparam).producers = initiator.vconfig.producers
           /\ Unwrap(acceptor.vparam).consumers = initiator.vconfig.consumers

\* what an info accessor has to return for a configuration
ExpectedInfo(vconfig, call, index) ==
    IF call = "info" THEN Some(vconfig.info)
    ELSE LET params == IF call = "producer_info" THEN vconfig.producers
                       ELSE vconfig.consumers
         IN  IF index + 1 > Len(params) THEN None
             ELSE Some(params[index + 1].info)

\* C30: on every vector type producer_info(i) returns the info of the i-th
\* producer, consumer_info(i) the info of the i-th consumer, none when i is
\* out of range, and info() the info of the vector
InfoAccessors ==
    answer # None =>
        Unwrap(answer).ret = ExpectedInfo(initiator.vconfig,
                                          Unwrap(answer).call,
                                          Unwrap(answer).index)

\* a cell holds the sentinel or the id of a slot
ValidCell(idx) == idx = INVALID_INDEX \/ is_valid_index(idx)

\* C31: after every atomic step the shared tail without the consumed flag,
\* the shared head and every cell of the chain hold the sentinel or a slot
\* id in 0 .. N-1
ValidIndexCells ==
    /\ tail = INVALID_INDEX \/ is_valid_index(MaskIndex(tail))
    /\ ValidCell(head)
    /\ \A i \in Slots : ValidCell(chain[i])

\* force_push has overrun the consumer and the overrun slot is still out of
\* the chain
OverrunPending == p_overrun # INVALID_INDEX /\ p_pc = "idle" /\ Consumed(tail)

RECURSIVE MirrorWalk(_, _)
\* the slots reached from slot idx along the producer's chain mirror
MirrorWalk(idx, fuel) ==
    IF fuel = 0 \/ ~is_valid_index(idx) THEN <<>>
    ELSE <<idx>> \o MirrorWalk(p_chain[idx], fuel - 1)

\* the walk from the producer's current slot; it is cut after N + 1 slots
ProducerPath == MirrorWalk(p_current, queue_len + 1)

\* C33: whenever the producer is between operations and a message has been
\* published, the walk along the chain mirror from `current` is a simple
\* path that ends at head, whose cell is the sentinel, and visits every slot
\* but the overrun slot exactly once; the overrun slot is not on it
NoSlotLeaked ==
    (p_pc = "idle" /\ p_head # INVALID_INDEX) =>
        /\ Len(ProducerPath) <= queue_len
        /\ \A a, b \in DOMAIN ProducerPath :
               a # b => ProducerPath[a] # ProducerPath[b]
        /\ Last(ProducerPath) = p_head
        /\ p_chain[p_head] = INVALID_INDEX
        /\ Rng(ProducerPath) = Slots \ {p_overrun}
        /\ p_overrun # p_current

\* an overrun slot is pending and the walk from `current` has the other
\* N - 1 slots
PathWithoutOverrunSlot ==
    /\ p_pc = "idle"
    /\ p_overrun # INVALID_INDEX
    /\ Len(ProducerPath) = queue_len - 1

\* C32: after any producer operation, following the chain from any slot
\* visits every one of the N slots exactly once: the chain is one cycle
PermutationClosure ==
    p_pc = "idle" =>
        \A i \in Slots : /\ Len(Walk(i, queue_len)) = queue_len
                         /\ Rng(Walk(i, queue_len)) = Slots

\* the walk along the shared chain from the producer's current slot
ChainPath == Walk(p_current, queue_len + 1)

\* C32 as the code has it: after construction the chain is one cycle; after
\* any later producer operation, following the chain from the producer's
\* current slot visits every slot exactly once, but for a pending overrun
\* slot, and ends at the slot whose cell holds the sentinel
ChainIsListFromCurrent ==
    p_pc = "idle" =>
        IF p_head = INVALID_INDEX
        THEN \A i \in Slots : /\ Len(Walk(i, queue_len)) = queue_len
                              /\ Rng(Walk(i, queue_len)) = Slots
        ELSE /\ Len(ChainPath) <= queue_len
             /\ \A a, b \in DOMAIN ChainPath :
                    a # b => ChainPath[a] # ChainPath[b]
             /\ chain[Last(ChainPath)] = INVALID_INDEX
             /\ Rng(ChainPath) = Slots \ {p_overrun}

\* after an overrun the chain from `current` has N - 1 slots and the overrun
\* slot is off it
ChainWithoutOverrunSlot ==
    /\ p_pc = "idle"
    /\ p_overrun # INVALID_INDEX
    /\ Len(ChainPath) = queue_len - 1
    /\ p_overrun \notin Rng(ChainPath)

\* C34: whenever no push is in progress, the shared head is the sentinel if
\* nothing has been published, and otherwise names the slot of the most
\* recently published message, whose chain cell holds the sentinel; the
\* producer's local head equals the shared head
HeadInvariant ==
    p_pc = "idle" =>
        /\ p_head = head
        /\ IF published = <<>> THEN head = INVALID_INDEX
           ELSE /\ is_valid_index(head)
                /\ chain[head] = INVALID_INDEX
                /\ messages[head] = Last(published)

\* the head has moved on from the first published slot while the consumer
\* was in the middle of a call
HeadMovedUnderConsumer ==
    /\ p_pc = "idle"
    /\ Len(published) >= 2
    /\ c_pc # "idle"
    /\ head # 0

\* w is the cell value v with the consumed flag set
Flagged(v, w) == Consumed(w) /\ MaskIndex(w) = MaskIndex(v)

\* the step is a step of the consumer
ConsumerMoves == <<clocal, consumer>>' # <<clocal, consumer>>

\* the step is a step of the producer
ProducerMoves == <<plocal, producer>>' # <<plocal, producer>>

FullyInitialised(region) ==
    /\ region.tail = INVALID_INDEX
    /\ region.head = INVALID_INDEX
    /\ \A i \in DOMAIN region.chain : region.chain[i] = i % Len(region.chain)

\* C36: when client_connect has sent the request, the initiator has fully
\* initialised the index region of every queue, each exactly once; the
\* acceptor writes no cell of an index region when it maps the arena
InitiatorInitialisesQueues ==
    (initiator.pc \in {"sent", "returned"}) =>
        \A i \in DOMAIN shm_regions :
            /\ FullyInitialised(shm_regions[i])
            /\ shm_regions[i].writes
                   = <<[by |-> "initiator", cells |-> "chain"],
                       [by |-> "initiator", cells |-> "tail, head"]>>

\* the byte range of the arena that a channel of a vector was given
Chunk(channel, cls) ==
    [from |-> Unwrap(channel).offset,
     to |-> Unwrap(channel).offset + shm_size(Unwrap(channel), cls)]

\* the chunks of the channels of a vector
Chunks(vec, cls) ==
    [i \in 1 .. Len(vec.producers) |-> Chunk(vec.producers[i], cls)]
    \o [i \in 1 .. Len(vec.consumers) |-> Chunk(vec.consumers[i], cls)]

\* the chunks are pairwise disjoint and lie inside an arena of `size` bytes
ChunksApart(chunks, size) ==
    /\ \A i \in DOMAIN chunks :
           0 <= chunks[i].from /\ chunks[i].from < chunks[i].to
                               /\ chunks[i].to <= size
    /\ \A i, j \in DOMAIN chunks :
           i # j => chunks[i].to <= chunks[j].from
                    \/ chunks[j].to <= chunks[i].from

EmptyDescriptorReturn ==
    /\ CanConsume
    /\ eventfd # None
    /\ Unwrap(eventfd) = 0
    /\ Len(c_log') > Len(c_log)

\* whenever producer and consumer are both between operations the
\* descriptor's counter is the number of unread messages
CounterIsUnread ==
    (eventfd # None /\ p_pc = "idle" /\ c_pc = "idle")
        => Unwrap(eventfd) = Len(UnreadSlots)

\* C38 as stated: the counter is the number of published messages neither
\* delivered nor discarded whenever both sides are between operations, and
\* the typed pop never returns on an empty descriptor while an unread
\* message remains in the queue
NoLostWakeupAlways ==
    /\ []CounterIsUnread
    /\ [][EmptyDescriptorReturn => UnreadSlots = <<>>]_vars

\* C38: on a channel with a wake-up descriptor, whenever producer and
\* consumer are both between operations the descriptor's counter equals the
\* number of published messages neither delivered nor discarded, and the
\* typed pop never returns on an empty descriptor while an unread message
\* remains in the queue and the producer is between operations
NoLostWakeup ==
    /\ []CounterIsUnread
    /\ [][(EmptyDescriptorReturn /\ p_pc = "idle")
            => UnreadSlots = <<>>]_vars

\* both sides are idle with units on the descriptor after a push that
\* discarded a message and a pop that delivered one
WakeupsAfterDiscard ==
    /\ p_pc = "idle" /\ c_pc = "idle"
    /\ Unwrap(eventfd) > 0
    /\ \E i \in DOMAIN p_log : p_log[i].result = "SuccessMessageDiscarded"
    /\ \E i \in DOMAIN c_log :
           c_log[i].result \in {"Success", "SuccessMessagesDiscarded"}

\* C39: a take that fails because T is larger than the channel's message
\* size leaves the channel in the vector: a slot of the vector is empty only
\* when a take at its index returned a facade
FailedTakeKeepsChannel ==
    initiator.vec # None =>
        /\ \A i \in DOMAIN Unwrap(initiator.vec).producers :
               Unwrap(initiator.vec).producers[i] = None
                   => Len(takes.producers[i]) = 1
        /\ \A i \in DOMAIN Unwrap(initiator.vec).consumers :
               Unwrap(initiator.vec).consumers[i] = None
                   => Len(takes.consumers[i]) = 1

\* C40: on a channel with a wake-up descriptor a flush that returns while
\* the producer is between operations returns Success and leaves the
\* consumer holding the most recently published message whenever an unread
\* message exists, and a flush returns NoMessage only when it has taken no
\* unread message
TypedFlushOutcome ==
    [][/\ (FlushReturns /\ p_pc = "idle" /\ UnreadSlots # <<>>) =>
            /\ Last(c_log').result = "Success"
            /\ messages[c_current'] = Last(published)
       /\ (FlushReturns /\ Last(c_log').result = "NoMessage") =>
            UnreadSlots' = UnreadSlots]_vars

====
